---- MODULE Spec2Model ----
(***************************************************************************)
(* Model of the Spheron natural-language-to-YAML server: the template      *)
(* extractor, the missing-parameter evaluator, the optional enhancer, the  *)
(* conversation state manager, the YAML generator/validator/updater and    *)
(* the natural_to_yaml request handler.                                    *)
(*                                                                         *)
(* A text is a sequence of tokens (a number or a word); a regular          *)
(* expression of the source is a leftmost match over the token sequence.   *)
(* A formatted string `${n}${unit}` is the pair <<n, unit>>.  A parameter  *)
(* object is a function from its present keys to their values.  A YAML     *)
(* mapping is a sequence of [k, v] entries, in key order.                  *)
(***************************************************************************)
EXTENDS Integers, Sequences, FiniteSets, TLC

\* ------------------------------------------------------------------ bounds
\* Answers recorded in the histories of the store, in total.
MaxTurns == 2

\* ------------------------------------------------------------ text, tokens
Num(k) == [n |-> k, w |-> ""]
W(s) == [n |-> -1, w |-> s]
IsNum(tok) == tok.n >= 0
IsWord(tok) == tok.n < 0

\* String.prototype.toLowerCase over the vocabulary of the model.
LowerTable ==
  [GB |-> "gb", Gb |-> "gb", GiB |-> "gib", G |-> "g", MB |-> "mb", MiB |-> "mib",
   M |-> "m", TB |-> "tb", TiB |-> "tib", T |-> "t", RAM |-> "ram", CPU |-> "cpu",
   NVIDIA |-> "nvidia", RTX |-> "rtx", A100 |-> "a100", H100 |-> "h100",
   T4 |-> "t4", V100 |-> "v100", GPU |-> "gpu", GPUs |-> "gpus",
   Jupyter |-> "jupyter", Ada |-> "ada"]
ToLowerCase(s) == IF s \in DOMAIN LowerTable THEN LowerTable[s] ELSE s

\* String.prototype.toUpperCase over the unit words.
UpperTable ==
  [gb |-> "GB", Gb |-> "GB", GiB |-> "GIB", gib |-> "GIB", g |-> "G",
   mb |-> "MB", MiB |-> "MIB", mib |-> "MIB", m |-> "M",
   tb |-> "TB", TiB |-> "TIB", tib |-> "TIB", t |-> "T"]
ToUpperCase(s) == IF s \in DOMAIN UpperTable THEN UpperTable[s] ELSE s

\* The digits a (\d+) group captures ending at the token: a number token, or
\* the digits that end a word such as "a100".
TrailingDigits == [a100 |-> 100, h100 |-> 100, v100 |-> 100, t4 |-> 4]
Digits(tok) ==
  IF IsNum(tok) THEN tok.n
  ELSE IF ToLowerCase(tok.w) \in DOMAIN TrailingDigits
       THEN TrailingDigits[ToLowerCase(tok.w)] ELSE -1

WordIn(d, i, S) == i \in 1..Len(d) /\ IsWord(d[i]) /\ ToLowerCase(d[i].w) \in S
DigitsAt(d, i) == i \in 1..Len(d) /\ Digits(d[i]) >= 0

\* Position of the leftmost match, 0 when there is none.
Leftmost(S) == IF S = {} THEN 0 ELSE CHOOSE i \in S : \A j \in S : i <= j

\* String.prototype.includes over the image strings of the model.
JUPYTER_IMAGE == "spheronnetwork/jupyter-notebook:pytorch-2.4.1-cuda-enabled"
SubstringTable ==
  {<<JUPYTER_IMAGE, "jupyter">>, <<JUPYTER_IMAGE, "cuda">>, <<JUPYTER_IMAGE, "pytorch">>,
   <<"tensorflow/tensorflow:latest", "tensorflow">>}
Includes(s, sub) == <<s, sub>> \in SubstringTable

\* --------------------------------------------------------- parameter objects
NoParams == [k \in {} |-> 0]
Has(p, k) == k \in DOMAIN p
\* JavaScript truthiness of a property: absent, 0 and '' are falsy.
NumberKeys == {"cpu", "amount", "count", "units"}
StringKeys == {"image", "pullPolicy", "name", "mode", "region", "model"}
\* Strings of the form `${value}${unit}` are pairs; '' is the empty sequence.
SizeKeys == {"memory", "storage", "duration"}
Truthy(p, k) ==
  /\ Has(p, k)
  /\ k \in NumberKeys => p[k] # 0
  /\ k \in StringKeys => p[k] # ""
  /\ k \in SizeKeys => p[k] # <<>>
\* Object spread {...a, ...b}.
Spread(a, b) ==
  [k \in DOMAIN a \cup DOMAIN b |-> IF k \in DOMAIN b THEN b[k] ELSE a[k]]

DEFAULT_PORTS ==
  << [port |-> 8888, as |-> 8888, global |-> TRUE],
     [port |-> 3000, as |-> 3000, global |-> TRUE] >>
DEFAULT_ENV == [JUPYTER_TOKEN |-> "test"]
DEFAULT_GPU == [units |-> 1, model |-> "rtx6000-ada"]
DEFAULT_PARAMS ==
  [image |-> JUPYTER_IMAGE, pullPolicy |-> "IfNotPresent", ports |-> DEFAULT_PORTS,
   env |-> DEFAULT_ENV, cpu |-> 16, memory |-> <<64, "Gi">>, storage |-> <<500, "Gi">>,
   gpu |-> DEFAULT_GPU, name |-> "py-cuda", duration |-> <<2, "h">>,
   mode |-> "provider", region |-> "westcoast", amount |-> 6, count |-> 1]

\* ---------------------------------------------------------------- extractor
CPU_WORDS == {"core", "cores", "cpu", "cpus", "processor", "processors"}
MEMORY_UNITS == {"gb", "gib", "g", "mb", "mib", "m"}
MEMORY_WORDS == {"ram", "memory"}
STORAGE_UNITS == {"gb", "gib", "g", "tb", "tib", "t"}
STORAGE_WORDS == {"storage", "disk", "space"}
GPU_KEYWORDS == <<"nvidia", "rtx", "gtx", "a100", "h100", "t4", "v100">>
GPU_COUNT_WORDS == {"gpu", "gpus"}
DURATION_UNITS ==
  {"hour", "hours", "hr", "hrs", "day", "days", "week", "weeks", "month", "months"}
REGION_WORDS ==
  {"us-east", "us-west", "eu-west", "eu-central", "ap-southeast", "ap-northeast",
   "westcoast", "eastcoast"}

\* CPU_REGEX = /(\d+)\s*(cores?|cpus?|processors?)/i
CpuMatch(d) ==
  Leftmost({i \in 1..Len(d) : DigitsAt(d, i) /\ WordIn(d, i + 1, CPU_WORDS)})
\* MEMORY_REGEX = /(\d+)\s*(GB|GiB|G|MB|MiB|M)\s*(RAM|memory)/i
MemoryMatch(d) ==
  Leftmost({i \in 1..Len(d) : DigitsAt(d, i) /\ WordIn(d, i + 1, MEMORY_UNITS)
                                /\ WordIn(d, i + 2, MEMORY_WORDS)})
\* STORAGE_REGEX = /(\d+)\s*(GB|GiB|G|TB|TiB|T)\s*(storage|disk|space)/i
StorageMatch(d) ==
  Leftmost({i \in 1..Len(d) : DigitsAt(d, i) /\ WordIn(d, i + 1, STORAGE_UNITS)
                                /\ WordIn(d, i + 2, STORAGE_WORDS)})
\* GPU_COUNT_REGEX = /(\d+)\s*gpus?/i
GpuCountMatch(d) ==
  Leftmost({i \in 1..Len(d) : DigitsAt(d, i) /\ WordIn(d, i + 1, GPU_COUNT_WORDS)})
\* DURATION_REGEX = /(\d+)\s*(hours?|hrs?|days?|weeks?|months?)/i
DurationMatch(d) ==
  Leftmost({i \in 1..Len(d) : DigitsAt(d, i) /\ WordIn(d, i + 1, DURATION_UNITS)})
\* REGION_REGEX = /(us-east|us-west|...|westcoast|eastcoast)/i
RegionMatch(d) == Leftmost({i \in 1..Len(d) : WordIn(d, i, REGION_WORDS)})

\* GPU_REGEX = /(nvidia|rtx|gtx|a100|h100|t4|v100|rtx\s*\d{4}|rtx\s*\d{4}\s*\w+)/i
\* Alternatives 1..7 are the keywords; 8 is rtx and four digits; 9 adds a word.
\* At the leftmost position the first alternative that matches is the capture.
FourDigits(d, i) == i \in 1..Len(d) /\ IsNum(d[i]) /\ d[i].n >= 1000 /\ d[i].n <= 9999
GpuAlternative(d, i, a) ==
  IF a <= 7 THEN WordIn(d, i, {GPU_KEYWORDS[a]})
  ELSE /\ WordIn(d, i, {"rtx"}) /\ FourDigits(d, i + 1)
       /\ (a = 9 => i + 2 \in 1..Len(d) /\ IsWord(d[i + 2]))
GpuMatch(d) == Leftmost({i \in 1..Len(d) : \E a \in 1..9 : GpuAlternative(d, i, a)})
\* The captured text gpuMatch[1] of the match at i by alternative a, lower-cased:
\* its keyword, digits and suffix.
CaptureOf(d, i, a) ==
  [kw |-> ToLowerCase(d[i].w),
   digits |-> IF a >= 8 THEN d[i + 1].n ELSE 0,
   suffix |-> IF a = 9 THEN ToLowerCase(d[i + 2].w) ELSE ""]
GpuCapture(d, i) == CaptureOf(d, i, Leftmost({x \in 1..9 : GpuAlternative(d, i, x)}))
\* The chain of includes()/=== tests that normalizes the GPU model name.
NormalizeGpuModel(c) ==
  IF c.kw = "rtx" /\ c.digits = 4090 THEN "rtx4090"
  ELSE IF c.kw = "rtx" /\ c.digits = 6000 /\ c.suffix = "ada" THEN "rtx6000-ada"
  ELSE IF c.kw \in {"a100", "h100", "t4", "v100"} /\ c.digits = 0 THEN c.kw
  ELSE "rtx6000-ada"

NormalizeMemoryUnit(u) ==
  IF u \in {"G", "GB"} THEN "Gi" ELSE IF u \in {"M", "MB"} THEN "Mi" ELSE u
NormalizeStorageUnit(u) ==
  IF u \in {"G", "GB"} THEN "Gi" ELSE IF u \in {"T", "TB"} THEN "Ti" ELSE u
\* unit.startsWith('hour') || unit.startsWith('hr') ...
FormatDuration(value, unit) ==
  IF unit \in {"hour", "hours", "hr", "hrs"} THEN <<value, "h">>
  ELSE IF unit \in {"day", "days"} THEN <<value, "d">>
  ELSE IF unit \in {"week", "weeks"} THEN <<value * 7, "d">>
  ELSE <<value, "mon">>
\* A normalization that always gives the default region.
NormalizeRegionDefaulting(r) == "westcoast"
NormalizeRegion(r) ==
  IF r \in {"westcoast", "us-west"} THEN "westcoast"
  ELSE IF r \in {"eastcoast", "us-east"} THEN "eastcoast"
  ELSE "westcoast"
IsJupyter(d) == \E i \in 1..Len(d) : WordIn(d, i, {"jupyter", "notebook"})

\* calculateAmount: 3 CST per hour of the duration string, 6 without one.
\* An amount that counts every duration as hours.
AmountOfHourly(value, unit) == value * 3
AmountOf(value, unit) ==
  IF unit = "h" THEN value * 3
  ELSE IF unit = "d" THEN value * 24 * 3
  ELSE IF unit = "mon" THEN value * 30 * 24 * 3
  ELSE 6
CalculateAmount(p) ==
  IF ~Truthy(p, "duration") THEN 6 ELSE AmountOf(p.duration[1], p.duration[2])

\* The steps of extractFromDescription, each given the position of its match.
ExtractCpu(d, cpuMatch) ==
  IF cpuMatch > 0 THEN [cpu |-> Digits(d[cpuMatch])] ELSE NoParams
ExtractMemory(d, memoryMatch) ==
  IF memoryMatch > 0
  THEN [memory |-> <<Digits(d[memoryMatch]),
                     NormalizeMemoryUnit(ToUpperCase(d[memoryMatch + 1].w))>>]
  ELSE NoParams
ExtractStorage(d, storageMatch) ==
  IF storageMatch > 0
  THEN [storage |-> <<Digits(d[storageMatch]),
                      NormalizeStorageUnit(ToUpperCase(d[storageMatch + 1].w))>>]
  ELSE NoParams
GpuModel(d, gpuMatch) ==
  IF gpuMatch > 0 THEN [model |-> NormalizeGpuModel(GpuCapture(d, gpuMatch))]
  ELSE NoParams
\* An extractor that sets the GPU only when a model keyword matched.
ExtractGpuNeedingModel(d, gpuMatch, gpuCountMatch) ==
  IF gpuMatch = 0 THEN NoParams
  ELSE [gpu |-> Spread(GpuModel(d, gpuMatch),
                       [units |-> IF gpuCountMatch > 0 THEN Digits(d[gpuCountMatch])
                                  ELSE 1])]
ExtractGpu(d, gpuMatch, gpuCountMatch) ==
  IF gpuCountMatch > 0
  THEN [gpu |-> Spread(GpuModel(d, gpuMatch), [units |-> Digits(d[gpuCountMatch])])]
  ELSE IF gpuMatch > 0 THEN [gpu |-> Spread(GpuModel(d, gpuMatch), [units |-> 1])]
  ELSE NoParams
ExtractDuration(d, durationMatch) ==
  IF durationMatch > 0
  THEN [duration |-> FormatDuration(Digits(d[durationMatch]),
                                    ToLowerCase(d[durationMatch + 1].w))]
  ELSE NoParams
ExtractRegion(d, regionMatch) ==
  IF regionMatch > 0 THEN [region |-> NormalizeRegion(ToLowerCase(d[regionMatch].w))]
  ELSE NoParams
ExtractJupyter(d) ==
  IF IsJupyter(d)
  THEN [image |-> JUPYTER_IMAGE, env |-> DEFAULT_ENV, ports |-> DEFAULT_PORTS]
  ELSE NoParams
\* if (params.image && params.image.includes('jupyter')) params.name = 'py-cuda'
ExtractName(p) ==
  IF Truthy(p, "image") /\ Includes(p.image, "jupyter")
  THEN Spread(p, [name |-> "py-cuda"]) ELSE p
ExtractAmount(p) == Spread(p, [amount |-> CalculateAmount(p)])

ExtractFromDescription(d) ==
  ExtractAmount(ExtractName(
    Spread(Spread(Spread(Spread(Spread(Spread(
      ExtractCpu(d, CpuMatch(d)),
      ExtractMemory(d, MemoryMatch(d))),
      ExtractStorage(d, StorageMatch(d))),
      ExtractGpu(d, GpuMatch(d), GpuCountMatch(d))),
      ExtractDuration(d, DurationMatch(d))),
      ExtractRegion(d, RegionMatch(d))),
      ExtractJupyter(d))))

\* ------------------------------------------------- missing-parameter evaluator
\* identifyMissingParams with duration tested before storage.
IdentifyMissingParamsReordered(p) ==
  (IF ~Truthy(p, "cpu") THEN <<"CPU cores">> ELSE <<>>)
  \o (IF ~Truthy(p, "memory") THEN <<"memory (RAM)">> ELSE <<>>)
  \o (IF ~Truthy(p, "duration") THEN <<"duration">> ELSE <<>>)
  \o (IF ~Truthy(p, "storage") THEN <<"storage">> ELSE <<>>)
  \o (IF /\ Truthy(p, "image")
         /\ \E kw \in {"cuda", "pytorch", "tensorflow"} : Includes(p.image, kw)
         /\ ~Has(p, "gpu")
      THEN <<"GPU model">> ELSE <<>>)
\* if (!params.cpu) ...: absent, 0 and '' are all reported missing.
IdentifyMissingParams(p) ==
  (IF ~Truthy(p, "cpu") THEN <<"CPU cores">> ELSE <<>>)
  \o (IF ~Truthy(p, "memory") THEN <<"memory (RAM)">> ELSE <<>>)
  \o (IF ~Truthy(p, "storage") THEN <<"storage">> ELSE <<>>)
  \o (IF ~Truthy(p, "duration") THEN <<"duration">> ELSE <<>>)
  \o (IF /\ Truthy(p, "image")
         /\ \E kw \in {"cuda", "pytorch", "tensorflow"} : Includes(p.image, kw)
         /\ ~Has(p, "gpu")
      THEN <<"GPU model">> ELSE <<>>)

\* {...DEFAULT_PARAMS, ...params, gpu: {...}, env: {...}}
MergeWithDefaults(p) ==
  Spread(Spread(DEFAULT_PARAMS, p),
         [gpu |-> Spread(DEFAULT_GPU, IF Has(p, "gpu") THEN p.gpu ELSE NoParams),
          env |-> Spread(DEFAULT_ENV, IF Has(p, "env") THEN p.env ELSE NoParams)])

\* ------------------------------------------------------------ YAML generator
\* A YAML text: kind "yaml" is the dump of the mapping val; "malformed" does not
\* parse; "null" loads as undefined/null; "scalar" loads as a plain string;
\* "none" is the absent (or empty, falsy) argument.
Text(kind) == [kind |-> kind, val |-> NoParams]
NO_YAML == Text("none")
\* yaml.dump of a mapping, and yaml.load of a text.
Dump(config) == [kind |-> "yaml", val |-> config]
LoadThrows(text) == text.kind = "malformed"
Load(text) == text.val
Entry(key, value) == [k |-> key, v |-> value]

ServiceName(p) == IF Truthy(p, "name") THEN p.name ELSE "py-cuda"
RegionName(p) == IF Truthy(p, "region") THEN p.region ELSE "westcoast"

GenerateExposeConfig(p) ==
  IF Has(p, "ports") /\ Len(p.ports) > 0
  THEN [i \in 1..Len(p.ports) |->
          [port |-> p.ports[i].port,
           as |-> IF Truthy(p.ports[i], "as") /\ p.ports[i].as # 0
                  THEN p.ports[i].as ELSE p.ports[i].port,
           to |-> <<[global |-> IF Has(p.ports[i], "global")
                                THEN p.ports[i].global ELSE TRUE]>>]]
  ELSE << [port |-> 8888, as |-> 8888, to |-> <<[global |-> TRUE]>>],
          [port |-> 3000, as |-> 3000, to |-> <<[global |-> TRUE]>>] >>

\* The `${key}=${value}` entries, as the set of <<key, value>>.
GenerateEnvConfig(p) ==
  IF Has(p, "env") THEN {<<k, p.env[k]>> : k \in DOMAIN p.env}
  ELSE {<<"JUPYTER_TOKEN", "test">>}

GpuResource(p) ==
  [units |-> IF Truthy(p.gpu, "units") THEN p.gpu.units ELSE 1,
   attributes |-> [vendor |-> [nvidia |->
     <<[model |-> IF Truthy(p.gpu, "model") THEN p.gpu.model ELSE "rtx6000-ada"]>>]]]

GenerateResourcesConfig(p) ==
  Spread([cpu |-> [units |-> IF Truthy(p, "cpu") THEN p.cpu ELSE 16],
          memory |-> [size |-> IF Truthy(p, "memory") THEN p.memory ELSE <<64, "Gi">>],
          storage |-> <<[size |-> IF Truthy(p, "storage") THEN p.storage
                                  ELSE <<500, "Gi">>]>>],
         IF Has(p, "gpu") THEN [gpu |-> GpuResource(p)] ELSE NoParams)

GenerateYaml(p) ==
  Dump([version |-> "1.0",
        services |-> <<Entry(ServiceName(p),
           [image |-> IF Truthy(p, "image") THEN p.image ELSE JUPYTER_IMAGE,
            pull_policy |-> IF Truthy(p, "pullPolicy") THEN p.pullPolicy
                            ELSE "IfNotPresent",
            expose |-> GenerateExposeConfig(p),
            env |-> GenerateEnvConfig(p)])>>,
        profiles |->
          [name |-> ServiceName(p),
           duration |-> IF Truthy(p, "duration") THEN p.duration ELSE <<2, "h">>,
           mode |-> IF Truthy(p, "mode") THEN p.mode ELSE "provider",
           compute |-> <<Entry(ServiceName(p),
                          [resources |-> GenerateResourcesConfig(p)])>>,
           placement |-> <<Entry(RegionName(p),
              [pricing |-> <<Entry(ServiceName(p),
                 [token |-> "CST",
                  amount |-> IF Truthy(p, "amount") THEN p.amount ELSE 15])>>])>>],
        deployment |-> <<Entry(ServiceName(p),
           <<Entry(RegionName(p),
               [profile |-> ServiceName(p),
                count |-> IF Truthy(p, "count") THEN p.count ELSE 1])>>)>>])

\* ------------------------------------------------------------- YAML validator
Err(msg, region, profile) == [msg |-> msg, region |-> region, profile |-> profile]
INVALID_YAML == Err("Invalid YAML", "", "")
RECURSIVE Flatten(_)
Flatten(ss) == IF ss = <<>> THEN <<>> ELSE Head(ss) \o Flatten(Tail(ss))
\* !x || Object.keys(x).length === 0 of a mapping-valued property.
NoKeys(c, k) == ~Has(c, k) \/ Len(c[k]) = 0

\* A region of the placement whose value is null ("westcoast:" with nothing
\* under it): reading placement.pricing of it throws.
NULL_PLACEMENT == [null |-> TRUE]
\* A pricing check that accepts every token.
PricingErrorsLenient(region, placement) ==
  IF NoKeys(placement, "pricing")
  THEN <<Err("Pricing must be defined for region", region, "")>>
  ELSE <<>>
PricingErrors(region, placement) ==
  IF NoKeys(placement, "pricing")
  THEN <<Err("Pricing must be defined for region", region, "")>>
  ELSE Flatten([i \in 1..Len(placement.pricing) |->
         IF placement.pricing[i].v.token # "CST"
         THEN <<Err("Token must be CST", region, placement.pricing[i].k)>>
         ELSE <<>>])

\* The loop over the regions, up to the first null one, where the read throws
\* and the catch block pushes "Invalid YAML".
RECURSIVE PlacementErrors(_)
PlacementErrors(placement) ==
  IF placement = <<>> THEN <<>>
  ELSE IF Has(Head(placement).v, "null") THEN <<INVALID_YAML>>
  ELSE PricingErrors(Head(placement).k, Head(placement).v)
         \o PlacementErrors(Tail(placement))
Thrown(errors) == errors # <<>> /\ errors[Len(errors)] = INVALID_YAML
ProfilesErrors(c) ==
  IF ~Has(c, "profiles") THEN <<Err("Profiles must be defined", "", "")>>
  ELSE (IF ~Truthy(c.profiles, "duration")
        THEN <<Err("Duration must be specified", "", "")>> ELSE <<>>)
    \o (IF ~Truthy(c.profiles, "mode")
        THEN <<Err("Mode must be specified", "", "")>> ELSE <<>>)
    \o (IF NoKeys(c.profiles, "compute")
        THEN <<Err("Compute resources must be defined", "", "")>> ELSE <<>>)
    \o (IF NoKeys(c.profiles, "placement")
        THEN <<Err("Placement must be defined", "", "")>>
        ELSE PlacementErrors(c.profiles.placement))

ConfigErrors(c) ==
  (IF ~(Has(c, "version") /\ c.version = "1.0")
   THEN <<Err("Version must be 1.0", "", "")>> ELSE <<>>)
  \o (IF NoKeys(c, "services")
      THEN <<Err("At least one service must be defined", "", "")>> ELSE <<>>)
  \o ProfilesErrors(c)
  \o (IF ~Thrown(ProfilesErrors(c)) /\ NoKeys(c, "deployment")
      THEN <<Err("Deployment must be defined", "", "")>> ELSE <<>>)

\* validateYaml: a load that throws, or a property read of undefined/null,
\* lands in the catch block and pushes one "Invalid YAML" entry; a plain string
\* has none of the properties read.
ValidationErrors(text) ==
  IF LoadThrows(text) \/ text.kind \in {"null", "none"} THEN <<INVALID_YAML>>
  ELSE ConfigErrors(Load(text))
\* { valid: errors.length === 0, errors }
Validation(errors) == [valid |-> Len(errors) = 0, errors |-> errors]
ValidateYaml(text) == Validation(ValidationErrors(text))

\* --------------------------------------------------------------- YAML updater
\* The first key of a mapping is patched; Object.keys(x)[0] of an empty mapping
\* is undefined, and reading or writing a property of undefined throws.
ServicePatch(p) ==
  Spread(Spread(Spread(
    IF Truthy(p, "image") THEN [image |-> p.image] ELSE NoParams,
    IF Truthy(p, "pullPolicy") THEN [pull_policy |-> p.pullPolicy] ELSE NoParams),
    IF Has(p, "ports") THEN [expose |-> GenerateExposeConfig(p)] ELSE NoParams),
    IF Has(p, "env") THEN [env |-> GenerateEnvConfig(p)] ELSE NoParams)
ResourcesPatch(p) ==
  Spread(Spread(Spread(
    IF Truthy(p, "cpu") THEN [cpu |-> [units |-> p.cpu]] ELSE NoParams,
    IF Truthy(p, "memory") THEN [memory |-> [size |-> p.memory]] ELSE NoParams),
    IF Truthy(p, "storage") THEN [storage |-> <<[size |-> p.storage]>>] ELSE NoParams),
    IF Has(p, "gpu") THEN [gpu |-> GpuResource(p)] ELSE NoParams)
ProfilesPatch(p) ==
  Spread(Spread(
    IF Truthy(p, "name") THEN [name |-> p.name] ELSE NoParams,
    IF Truthy(p, "duration") THEN [duration |-> p.duration] ELSE NoParams),
    IF Truthy(p, "mode") THEN [mode |-> p.mode] ELSE NoParams)
PricingPatch(p) ==
  Spread([token |-> "CST"],
         IF Truthy(p, "amount") THEN [amount |-> p.amount] ELSE NoParams)
DeploymentPatch(p) ==
  Spread(IF Truthy(p, "name") THEN [profile |-> p.name] ELSE NoParams,
         IF Truthy(p, "count") THEN [count |-> p.count] ELSE NoParams)

PatchFirst(m, patch) == [m EXCEPT ![1].v = Spread(m[1].v, patch)]

UpdateServices(c, p) ==
  IF Has(c, "services")
  THEN [c EXCEPT !.services = PatchFirst(c.services, ServicePatch(p))]
  ELSE c
UpdateCompute(pr, p) ==
  IF Has(pr, "compute") /\ Has(pr.compute[1].v, "resources")
  THEN [pr EXCEPT !.compute[1].v.resources =
          Spread(pr.compute[1].v.resources, ResourcesPatch(p))]
  ELSE pr
UpdatePlacement(pr, p) ==
  IF Has(pr, "placement") /\ Has(pr.placement[1].v, "pricing")
  THEN [pr EXCEPT !.placement[1].v.pricing =
          PatchFirst(pr.placement[1].v.pricing, PricingPatch(p))]
  ELSE pr
UpdateProfiles(c, p) ==
  IF Has(c, "profiles")
  THEN [c EXCEPT !.profiles =
          UpdatePlacement(UpdateCompute(Spread(c.profiles, ProfilesPatch(p)), p), p)]
  ELSE c
UpdateDeployment(c, p) ==
  IF Has(c, "deployment")
  THEN [c EXCEPT !.deployment[1].v = PatchFirst(c.deployment[1].v, DeploymentPatch(p))]
  ELSE c

\* The TypeErrors of the try block: a property of undefined is read or written.
UpdateThrows(text, p) ==
  \/ LoadThrows(text)
  \/ text.kind \in {"null", "none"}
  \/ /\ text.kind = "yaml"
     /\ LET c == Load(text) IN
        \/ Has(c, "services") /\ Len(c.services) = 0 /\ DOMAIN ServicePatch(p) # {}
        \/ /\ Has(c, "profiles")
           /\ \/ Has(c.profiles, "compute") /\ Len(c.profiles.compute) = 0
              \/ Has(c.profiles, "placement") /\ Len(c.profiles.placement) = 0
              \/ /\ Has(c.profiles, "placement") /\ Len(c.profiles.placement) > 0
                 /\ Has(c.profiles.placement[1].v, "pricing")
                 /\ Len(c.profiles.placement[1].v.pricing) = 0
        \/ /\ Has(c, "deployment")
           /\ \/ Len(c.deployment) = 0
              \/ Len(c.deployment[1].v) = 0 /\ DOMAIN DeploymentPatch(p) # {}

UpdateYaml(text, p) ==
  IF UpdateThrows(text, p) THEN GenerateYaml(p)
  ELSE IF text.kind = "scalar" THEN text
  ELSE Dump(UpdateDeployment(UpdateProfiles(UpdateServices(Load(text), p), p), p))

\* ------------------------------------------------------------- dialogue texts
Say(phrases) == Flatten(phrases)
CORES == <<Num(8), W("cores")>>
RAM == <<Num(16), W("GB"), W("RAM")>>
STORAGE == <<Num(200), W("GB"), W("storage")>>
HOURS == <<Num(2), W("hours")>>
\* The phrases from which the descriptions and answers of a run are made.
Descriptions ==
  { Say(<<CORES, RAM>>),
    Say(<<CORES, RAM, STORAGE, HOURS>>),
    Say(<<<<W("Jupyter")>>, CORES, RAM, STORAGE, HOURS>>),
    Say(<<<<Num(0), W("cores")>>, RAM, STORAGE, HOURS>>) }
Answers == {STORAGE, HOURS, <<W("a100")>>, <<Num(2), W("gpus")>>, CORES}
ExistingYamls == {NO_YAML, Dump([version |-> "1.0"])}
\* The extractor tabulated over the texts a run can submit.
DialogueTexts ==
  Descriptions \cup {d \o a : d \in Descriptions, a \in Answers} \cup Answers
ExtractionTable == [d \in DialogueTexts |-> ExtractFromDescription(d)]
Extract(d) ==
  IF d \in DialogueTexts THEN ExtractionTable[d] ELSE ExtractFromDescription(d)

\* ------------------------------------------------------------------ enhancer
\* One call of the external model: the transport fails ("error"), the reply
\* holds no parseable object ("noobject"), or it holds the object obj.
\* "nocall" stands for no call made (no API key).
Outcome(kind, obj) == [kind |-> kind, obj |-> obj]
NO_CALL == Outcome("nocall", NoParams)
EnhancerObjects ==
  { [cpu |-> 4, memory |-> <<8, "Gi">>, storage |-> <<100, "Gi">>,
     duration |-> <<1, "h">>, region |-> "eastcoast",
     gpu |-> [model |-> "h100"], env |-> [HF_TOKEN |-> "secret"]],
    [image |-> "tensorflow/tensorflow:latest", amount |-> 30] }
EnhancerOutcomes ==
  {Outcome("error", NoParams), Outcome("noobject", NoParams)}
  \cup {Outcome("object", o) : o \in EnhancerObjects}

\* parseClaudeResponse: the parsed object, its amount backfilled.
ParseClaudeResponse(outcome, originalParams) ==
  IF outcome.kind = "object"
  THEN IF ~Has(outcome.obj, "amount")
       THEN Spread(outcome.obj,
              [amount |-> IF Truthy(originalParams, "amount")
                          THEN originalParams.amount ELSE 15])
       ELSE outcome.obj
  ELSE originalParams
\* An enhancer whose failure loses the extracted parameters.
EnhanceWithClaudeLosing(extractedParams, outcome) ==
  IF outcome.kind = "object" THEN ParseClaudeResponse(outcome, extractedParams)
  ELSE NoParams
EnhanceWithClaude(extractedParams, outcome) ==
  IF outcome.kind = "error" THEN extractedParams
  ELSE ParseClaudeResponse(outcome, extractedParams)

\* processDescription: extract, enhance when a key is configured, evaluate, and
\* merge with the defaults when nothing is missing.
Enhanced(extracted, apiKey, outcome) ==
  IF apiKey THEN EnhanceWithClaude(extracted, outcome) ELSE extracted
Processed(params, missingParams) ==
  [params |-> IF Len(missingParams) = 0 THEN MergeWithDefaults(params) ELSE params,
   missingParams |-> missingParams]
Evaluated(params) == Processed(params, IdentifyMissingParams(params))
ProcessDescription(description, apiKey, outcome) ==
  Evaluated(Enhanced(Extract(description), apiKey, outcome))

\* A question: '' ("empty"), the fixed template over the labels, or model text.
Question(src, labels) == [src |-> src, labels |-> labels]
NO_QUESTION == Question("empty", <<>>)
GenerateQuestion(missingParams, apiKey, outcome) ==
  IF Len(missingParams) = 0 THEN NO_QUESTION
  ELSE IF apiKey /\ outcome.kind = "text" THEN Question("llm", <<>>)
  ELSE Question("template", missingParams)

\* The calls of client.messages.create one request makes, in order: one by
\* enhanceWithClaude when a key is configured, then one by
\* generateFollowUpQuestion when a key is configured and labels are missing.
\* A client that repeats a failed enhance call.
CallsMadeRetrying(missingParams, apiKey, enhance, ask) ==
  (IF apiKey THEN <<[api |-> "enhance", outcome |-> enhance.kind]>> ELSE <<>>)
    \o (IF apiKey /\ enhance.kind = "error"
        THEN <<[api |-> "enhance", outcome |-> enhance.kind]>>
        ELSE <<>>)
    \o (IF apiKey /\ Len(missingParams) > 0
        THEN <<[api |-> "askFollowUp", outcome |-> ask.kind]>>
        ELSE <<>>)
CallsMade(missingParams, apiKey, enhance, ask) ==
  (IF apiKey THEN <<[api |-> "enhance", outcome |-> enhance.kind]>> ELSE <<>>)
    \o (IF apiKey /\ Len(missingParams) > 0
        THEN <<[api |-> "askFollowUp", outcome |-> ask.kind]>>
        ELSE <<>>)

\* -------------------------------------------------- conversation state manager
\* The values Date.now() and Math.random() take in a run: the requests of a run
\* fall in one millisecond, the case in which only the random suffix tells two
\* ids apart.
Times == {0}
Rands == {1, 2}
\* `conv_${Date.now()}_${Math.random().toString(36).substring(2, 9)}`
GenerateId(now, random) == <<now, random>>
ConversationIds == {GenerateId(t, r) : t \in Times, r \in Rands}
NO_ID == <<-1, -1>>
NoConversations == [id \in {} |-> 0]

\* create that never sets complete.
CreateConversationIncomplete(store, id, description, params, missingParams) ==
  [x \in DOMAIN store \cup {id} |->
     IF x = id
     THEN [id |-> id, originalDescription |-> description, currentParams |-> params,
           missingParams |-> missingParams, history |-> <<>>, complete |-> FALSE]
     ELSE store[x]]

CreateConversation(store, id, description, params, missingParams) ==
  [x \in DOMAIN store \cup {id} |->
     IF x = id
     THEN [id |-> id, originalDescription |-> description, currentParams |-> params,
           missingParams |-> missingParams, history |-> <<>>,
           complete |-> (Len(missingParams) = 0)]
     ELSE store[x]]

GetConversation(store, id) == id \in DOMAIN store

\* Variants of the manager that break its contract.
\* update that merges the given parameters into the stored ones.
UpdateConversationMerging(store, id, question, answer, updatedParams, missingParams) ==
  IF id \notin DOMAIN store THEN store
  ELSE [store EXCEPT ![id] =
          [@ EXCEPT !.currentParams = Spread(@, updatedParams),
                    !.missingParams = missingParams,
                    !.history = Append(@, [question |-> question, answer |-> answer]),
                    !.complete = (Len(missingParams) = 0)]]
\* update that folds the answer into the original description.
UpdateConversationFolding(store, id, question, answer, updatedParams, missingParams) ==
  IF id \notin DOMAIN store THEN store
  ELSE [store EXCEPT ![id] =
          [@ EXCEPT !.originalDescription = @ \o answer,
                    !.currentParams = updatedParams,
                    !.missingParams = missingParams,
                    !.history = Append(@, [question |-> question, answer |-> answer]),
                    !.complete = (Len(missingParams) = 0)]]
\* update that puts the new pair in front of the history.
UpdateConversationPrepending(store, id, question, answer, updatedParams, missingParams) ==
  IF id \notin DOMAIN store THEN store
  ELSE [store EXCEPT ![id] =
          [@ EXCEPT !.currentParams = updatedParams,
                    !.missingParams = missingParams,
                    !.history = <<[question |-> question, answer |-> answer]>> \o @,
                    !.complete = (Len(missingParams) = 0)]]
\* complete that also clears the missing labels.
CompleteConversationClearing(store, id) ==
  IF id \notin DOMAIN store THEN store
  ELSE [store EXCEPT ![id].complete = TRUE, ![id].missingParams = <<>>]
\* delete that clears the whole store when the id is known.
DeleteConversationClearing(store, id) ==
  IF id \in DOMAIN store THEN [x \in {} |-> 0] ELSE store

UpdateConversation(store, id, question, answer, updatedParams, missingParams) ==
  IF id \notin DOMAIN store THEN store
  ELSE [store EXCEPT ![id] =
          [@ EXCEPT !.currentParams = updatedParams,
                    !.missingParams = missingParams,
                    !.history = Append(@, [question |-> question, answer |-> answer]),
                    !.complete = (Len(missingParams) = 0)]]

CompleteConversation(store, id) ==
  IF id \notin DOMAIN store THEN store
  ELSE [store EXCEPT ![id].complete = TRUE]

DeleteConversation(store, id) == [x \in DOMAIN store \ {id} |-> store[x]]

\* ------------------------------------------------- natural_to_yaml (index.ts)
\* `${conversation.originalDescription} ${answer}`
CombinedDescription(conversation, answer) == conversation.originalDescription \o answer
\* { ...conversation.currentParams, ...params }
MergeParams(currentParams, params) == Spread(currentParams, params)
LastQuestion(conversation) ==
  IF Len(conversation.history) > 0
  THEN conversation.history[Len(conversation.history)].question
  ELSE NO_QUESTION
YamlContent(existingYaml, params) ==
  IF existingYaml.kind # "none" THEN UpdateYaml(existingYaml, params)
  ELSE GenerateYaml(params)

IsAnswerRequest(req) == req.conversation_id # NO_ID /\ req.answer # <<>>
IsDescriptionRequest(req) == ~IsAnswerRequest(req) /\ req.description # <<>>

\* The store after the answer branch: update, then complete when nothing is missing.
\* if (missingParams.length > 0) {...} else {... completeConversation(id) ...}
CompleteWhenDone(store, id, missingParams) ==
  IF Len(missingParams) > 0 THEN store ELSE CompleteConversation(store, id)
\* The store after the answer branch has merged, updated and completed, where
\* conversation is the object that getConversation returned.
UpdatedStore(store, conversation, req, processed) ==
  CompleteWhenDone(
    UpdateConversation(store, req.conversation_id,
      LastQuestion(conversation), req.answer,
      MergeParams(conversation.currentParams, processed.params),
      processed.missingParams),
    req.conversation_id, processed.missingParams)
AnswerStore(store, req, processed) ==
  UpdatedStore(store, store[req.conversation_id], req, processed)
\* The store after the description branch.
DescriptionStore(store, id, req, processed) ==
  CompleteWhenDone(
    CreateConversation(store, id, req.description, processed.params,
                       processed.missingParams),
    id, processed.missingParams)

Failure(req, message) ==
  [op |-> "natural_to_yaml", request |-> req, success |-> FALSE, error |-> message,
   conversation_id |-> NO_ID, complete |-> FALSE, question |-> NO_QUESTION,
   missing_params |-> <<>>, yaml |-> NO_YAML, valid |-> FALSE, errors |-> <<>>,
   processed |-> [params |-> NoParams, missingParams |-> <<>>]]
\* The JSON body returned by either branch.
Body(req, id, processed, complete, question, yaml, validation) ==
  [op |-> "natural_to_yaml", request |-> req, success |-> TRUE, error |-> "",
   conversation_id |-> id, complete |-> complete, question |-> question,
   missing_params |-> IF complete THEN <<>> ELSE processed.missingParams,
   yaml |-> yaml, valid |-> validation.valid, errors |-> validation.errors,
   processed |-> processed]
\* { conversation_id, complete: false, question, missing_params }
Incomplete(req, id, processed, question) ==
  Body(req, id, processed, FALSE, question, NO_YAML, [valid |-> FALSE, errors |-> <<>>])
\* { conversation_id, complete: true, yaml, valid, errors }
Complete(req, id, processed, yaml) ==
  Body(req, id, processed, TRUE, NO_QUESTION, yaml, ValidateYaml(yaml))
\* A handler that asks a question whatever the evaluator reported.
SuccessAsking(req, id, processed, params, question) ==
  Incomplete(req, id, processed, question)
Success(req, id, processed, params, question) ==
  IF Len(processed.missingParams) > 0 THEN Incomplete(req, id, processed, question)
  ELSE Complete(req, id, processed, YamlContent(req.existing_yaml, params))

VARIABLES conversationStore, response, claudeApiKey, claudeCalls, inFlight, sdkCalls

vars == <<conversationStore, response, claudeApiKey, claudeCalls, inFlight, sdkCalls>>

\* No request is suspended at an await, and no marketplace call was issued.
NoRequests == [r \in {} |-> 0]

\* ------------------------------------------------------------ request inputs
Request(description, id, answer, yaml) ==
  [description |-> description, conversation_id |-> id, answer |-> answer,
   existing_yaml |-> yaml]
\* A first description; an answer to a conversation id; a description sent
\* with a conversation id and no answer; a request with none of them.
RequestsOf(descriptions, answers, yamls) ==
  {Request(d, NO_ID, <<>>, y) : d \in descriptions, y \in yamls}
  \cup {Request(<<>>, i, a, y) : i \in ConversationIds, a \in answers, y \in yamls}
  \cup {Request(CORES, i, <<>>, NO_YAML) : i \in ConversationIds}
  \cup {Request(<<>>, i, <<>>, NO_YAML) : i \in ConversationIds \cup {NO_ID}}
Requests == RequestsOf(Descriptions, Answers, ExistingYamls)
EnhanceCalls == IF claudeApiKey THEN EnhancerOutcomes ELSE {NO_CALL}
QuestionCalls ==
  IF claudeApiKey THEN {Outcome("error", NoParams), Outcome("text", NoParams)}
  ELSE {NO_CALL}

RECURSIVE Turns(_, _)
Turns(store, ids) ==
  IF ids = {} THEN 0
  ELSE LET id == CHOOSE x \in ids : TRUE
       IN Len(store[id].history) + Turns(store, ids \ {id})
TotalTurns(store) == Turns(store, DOMAIN store)

Init ==
  /\ conversationStore = NoConversations
  /\ response = [op |-> "init"]
  /\ claudeApiKey = FALSE
  /\ claudeCalls = <<>>
  /\ inFlight = NoRequests
  /\ sdkCalls = <<>>

\* natural_to_yaml with conversation_id and answer.
AnswerRequest(req, enhance, ask) ==
  /\ IsAnswerRequest(req)
  /\ IF req.conversation_id \notin DOMAIN conversationStore
     THEN /\ response' = Failure(req, "Conversation not found")
          /\ claudeCalls' = <<>>
          /\ UNCHANGED conversationStore
     ELSE /\ TotalTurns(conversationStore) < MaxTurns
          /\ \E processed \in {ProcessDescription(
                 CombinedDescription(conversationStore[req.conversation_id], req.answer),
                 claudeApiKey, enhance)} :
               /\ conversationStore' = AnswerStore(conversationStore, req, processed)
               /\ response' = Success(req, req.conversation_id, processed,
                                conversationStore'[req.conversation_id].currentParams,
                                GenerateQuestion(processed.missingParams,
                                                 claudeApiKey, ask))
               /\ claudeCalls' = CallsMade(processed.missingParams, claudeApiKey,
                                           enhance, ask)
  /\ UNCHANGED <<claudeApiKey, inFlight, sdkCalls>>

\* natural_to_yaml with a description (and no conversation_id plus answer).
DescriptionRequest(req, enhance, ask, now, random) ==
  /\ IsDescriptionRequest(req)
  /\ \E processed \in {ProcessDescription(req.description, claudeApiKey, enhance)} :
       /\ conversationStore' = DescriptionStore(conversationStore,
                                 GenerateId(now, random), req, processed)
       /\ response' = Success(req, GenerateId(now, random), processed, processed.params,
                        GenerateQuestion(processed.missingParams, claudeApiKey, ask))
       /\ claudeCalls' = CallsMade(processed.missingParams, claudeApiKey, enhance, ask)
  /\ UNCHANGED <<claudeApiKey, inFlight, sdkCalls>>

\* natural_to_yaml with neither.
EmptyRequest(req) ==
  /\ ~IsAnswerRequest(req) /\ ~IsDescriptionRequest(req)
  /\ response' = Failure(req, "Either description or conversation_id and answer must be provided")
  /\ claudeCalls' = <<>>
  /\ UNCHANGED <<conversationStore, claudeApiKey, inFlight, sdkCalls>>

HandlerNext(requests) ==
  \E req \in requests :
    \/ \E enhance \in EnhanceCalls, ask \in QuestionCalls :
         AnswerRequest(req, enhance, ask)
    \/ \E enhance \in EnhanceCalls, ask \in QuestionCalls, now \in Times, random \in Rands :
         DescriptionRequest(req, enhance, ask, now, random)
    \/ EmptyRequest(req)

Next == HandlerNext(Requests)

Spec == Init /\ [][Next]_vars

\* ------------------------------------- the state manager called on its own
\* What a call of the manager returned: found is false for undefined/false.
Result(op, id, found, args) ==
  [op |-> op, conversation_id |-> id, found |-> found, args |-> args]
ManagerDescriptions == {Say(<<CORES, RAM>>), Say(<<CORES, RAM, STORAGE, HOURS>>)}
ManagerParams == {Extract(Say(<<CORES, RAM>>)), MergeWithDefaults(Extract(CORES))}
ManagerMissing == {<<>>, <<"storage", "duration">>}
ManagerQuestions == {NO_QUESTION, Question("template", <<"storage", "duration">>)}
ManagerAnswers == {STORAGE}

ManagerCreate(description, params, missingParams, now, random) ==
  /\ conversationStore' = CreateConversation(conversationStore, GenerateId(now, random),
                            description, params, missingParams)
  /\ response' = Result("create", GenerateId(now, random), TRUE,
                   [description |-> description, params |-> params,
                    missingParams |-> missingParams])
  /\ UNCHANGED <<claudeApiKey, claudeCalls, inFlight, sdkCalls>>
ManagerGet(id) ==
  /\ response' = Result("get", id, GetConversation(conversationStore, id), NoParams)
  /\ UNCHANGED <<conversationStore, claudeApiKey, claudeCalls, inFlight, sdkCalls>>
ManagerUpdate(id, question, answer, updatedParams, missingParams) ==
  /\ id \in DOMAIN conversationStore => TotalTurns(conversationStore) < MaxTurns
  /\ conversationStore' = UpdateConversation(conversationStore, id, question, answer,
                            updatedParams, missingParams)
  /\ response' = Result("update", id, GetConversation(conversationStore, id),
                   [question |-> question, answer |-> answer,
                    params |-> updatedParams, missingParams |-> missingParams])
  /\ UNCHANGED <<claudeApiKey, claudeCalls, inFlight, sdkCalls>>
ManagerComplete(id) ==
  /\ conversationStore' = CompleteConversation(conversationStore, id)
  /\ response' = Result("complete", id, GetConversation(conversationStore, id), NoParams)
  /\ UNCHANGED <<claudeApiKey, claudeCalls, inFlight, sdkCalls>>
ManagerDelete(id) ==
  /\ conversationStore' = DeleteConversation(conversationStore, id)
  /\ response' = Result("delete", id, GetConversation(conversationStore, id), NoParams)
  /\ UNCHANGED <<claudeApiKey, claudeCalls, inFlight, sdkCalls>>

ManagerNext ==
  \/ \E d \in ManagerDescriptions, p \in ManagerParams, m \in ManagerMissing,
        now \in Times, random \in Rands : ManagerCreate(d, p, m, now, random)
  \/ \E id \in ConversationIds : ManagerGet(id)
  \/ \E id \in ConversationIds, q \in ManagerQuestions, a \in ManagerAnswers,
        p \in ManagerParams, m \in ManagerMissing : ManagerUpdate(id, q, a, p, m)
  \/ \E id \in ConversationIds : ManagerComplete(id)
  \/ \E id \in ConversationIds : ManagerDelete(id)

ManagerSpec == Init /\ [][ManagerNext]_vars

\* ------------------------------------------------- the manager's contracts
\* The step just taken is the manager call op.
ManagerStep(op) == response'.op = op
\* Every conversation other than id is left as it was.
OthersUnchanged(id) ==
  /\ DOMAIN conversationStore' \ {id} = DOMAIN conversationStore \ {id}
  /\ \A x \in DOMAIN conversationStore \ {id} :
       conversationStore'[x] = conversationStore[x]
\* The fields of conversation id named in keys are left as they were.
FieldsUnchanged(id, keys) ==
  \A k \in keys : conversationStore'[id][k] = conversationStore[id][k]

\* C6: update on an unknown id returns not-found and changes nothing; on a
\* known id it replaces currentParams by the given parameters as given, sets
\* the missing labels to the given list, appends exactly one {question, answer}
\* pair to the end of the history, sets complete to (the list is empty) and
\* leaves id, originalDescription and every other conversation unchanged.
C6_UpdateContract ==
  [][ManagerStep("update") =>
       LET id == response'.conversation_id
           args == response'.args
       IN IF id \notin DOMAIN conversationStore
          THEN ~response'.found /\ conversationStore' = conversationStore
          ELSE /\ response'.found
               /\ id \in DOMAIN conversationStore'
               /\ conversationStore'[id].currentParams = args.params
               /\ conversationStore'[id].missingParams = args.missingParams
               /\ conversationStore'[id].history =
                    conversationStore[id].history
                      \o <<[question |-> args.question, answer |-> args.answer]>>
               /\ conversationStore'[id].complete = (args.missingParams = <<>>)
               /\ FieldsUnchanged(id, {"id", "originalDescription"})
               /\ OthersUnchanged(id)]_vars
\* An update of a stored conversation that replaced parameters holding more
\* keys than the new ones, on top of an earlier answer.
C6_Witness ==
  /\ response.op = "update" /\ response.found
  /\ Len(conversationStore[response.conversation_id].history) = 2
  /\ conversationStore[response.conversation_id].currentParams = response.args.params
  /\ ~conversationStore[response.conversation_id].complete

\* C7: create stores the new conversation under an id that no stored
\* conversation has, so that every stored conversation is left as it was, with
\* an empty history and complete set iff the missing labels are empty.
C7_CreateFresh ==
  [][ManagerStep("create") =>
       LET id == response'.conversation_id
       IN /\ id \notin DOMAIN conversationStore
          /\ id \in DOMAIN conversationStore'
          /\ \A x \in DOMAIN conversationStore :
               x \in DOMAIN conversationStore'
               /\ conversationStore'[x] = conversationStore[x]
          /\ conversationStore'[id].history = <<>>
          /\ conversationStore'[id].complete = (response'.args.missingParams = <<>>)]_vars
\* A create has stored a conversation beside another one.
C7_Witness ==
  /\ response.op = "create"
  /\ Cardinality(DOMAIN conversationStore) = 2
  /\ conversationStore[response.conversation_id].history = <<>>

\* C8: complete on a known id sets complete and leaves currentParams, the
\* missing labels, the history, originalDescription and all other
\* conversations unchanged; completing again changes nothing more; on an
\* unknown id it returns not-found and changes nothing.
C8_CompleteContract ==
  [][ManagerStep("complete") =>
       LET id == response'.conversation_id
       IN IF id \notin DOMAIN conversationStore
          THEN ~response'.found /\ conversationStore' = conversationStore
          ELSE /\ response'.found
               /\ id \in DOMAIN conversationStore'
               /\ conversationStore'[id].complete
               /\ FieldsUnchanged(id, {"id", "originalDescription", "currentParams",
                                        "missingParams", "history"})
               /\ OthersUnchanged(id)
               /\ CompleteConversation(conversationStore', id) = conversationStore'
               /\ (response.op = "complete" /\ response.conversation_id = id
                     => conversationStore' = conversationStore)]_vars
\* A conversation with labels still missing was forced complete.
C8_Witness ==
  /\ response.op = "complete" /\ response.found
  /\ conversationStore[response.conversation_id].complete
  /\ conversationStore[response.conversation_id].missingParams # <<>>
  /\ Len(conversationStore[response.conversation_id].history) > 0

\* C9: delete returns true exactly when the id was stored and removes only
\* that entry; get, update, complete and delete on an id that is not stored
\* return not-found and leave the store as it was, so none re-creates the entry.
C9_DeleteContract ==
  [][/\ ManagerStep("delete") =>
          LET id == response'.conversation_id
          IN /\ response'.found = (id \in DOMAIN conversationStore)
             /\ id \notin DOMAIN conversationStore'
             /\ OthersUnchanged(id)
     /\ response'.op \in {"get", "update", "complete", "delete"}
          /\ response'.conversation_id \notin DOMAIN conversationStore
          => ~response'.found /\ conversationStore' = conversationStore]_vars
\* A delete removed a stored conversation and left the other one.
C9_Witness ==
  /\ response.op = "delete" /\ response.found
  /\ response.conversation_id \notin DOMAIN conversationStore
  /\ conversationStore # NoConversations

\* The request handler and direct calls of the manager, interleaved; the
\* requests are those over one description, two answers and no existing document.
AllRequests == RequestsOf({Say(<<CORES, RAM>>)}, {STORAGE, HOURS}, {NO_YAML})
AllNext == HandlerNext(AllRequests) \/ ManagerNext
AllSpec == Init /\ [][AllNext]_vars

\* The step just taken answered a natural_to_yaml request with conversation_id
\* and answer; the state holds the reply to such a request.
AnswerStep ==
  response'.op = "natural_to_yaml" /\ IsAnswerRequest(response'.request)
Answered ==
  response.op = "natural_to_yaml" /\ IsAnswerRequest(response.request)
    /\ response.success

\* C10: get, update, complete and answer submissions leave originalDescription
\* of every stored conversation as it was, and a creation stores the
\* description it was given, so originalDescription is always the description
\* given at creation.
C10_OriginalTextImmutable ==
  [][/\ (response'.op \in {"get", "update", "complete"} \/ AnswerStep)
          => /\ DOMAIN conversationStore' = DOMAIN conversationStore
             /\ \A id \in DOMAIN conversationStore :
                  FieldsUnchanged(id, {"originalDescription"})
     /\ ManagerStep("create")
          => conversationStore'[response'.conversation_id].originalDescription
               = response'.args.description
     /\ (response'.op = "natural_to_yaml" /\ response'.success /\ ~AnswerStep)
          => conversationStore'[response'.conversation_id].originalDescription
               = response'.request.description]_vars
\* A stored conversation has taken an answer through the handler and an
\* update and a complete through the manager.
C10_Witness ==
  /\ Answered
  /\ Len(conversationStore[response.conversation_id].history) = 2
  /\ conversationStore[response.conversation_id].history[1].question
       = Question("template", <<"storage", "duration">>)
  /\ conversationStore[response.conversation_id].originalDescription
       = Say(<<CORES, RAM>>)

\* ------------------------------------------------ the dialogue's contracts
RequiredKeys == {"cpu", "memory", "storage", "duration"}
\* The key of the parameter a missing label asks for.
LabelKey ==
  ("CPU cores" :> "cpu") @@ ("memory (RAM)" :> "memory") @@ ("storage" :> "storage")
    @@ ("duration" :> "duration") @@ ("GPU model" :> "gpu")
\* The text, taken alone, supplies the parameter k.
Supplies(text, k) ==
  IF k = "cpu" THEN Truthy(Extract(text), "cpu") ELSE Has(Extract(text), k)
SuppliedInDialogue(conversation, k) ==
  \/ Supplies(conversation.originalDescription, k)
  \/ \E i \in 1..Len(conversation.history) : Supplies(conversation.history[i].answer, k)
\* Several required fields are missing from the first description, each answer
\* supplies one required field, and every required field has been supplied.
SuppliedFieldByField(conversation) ==
  /\ ~Has(Extract(conversation.originalDescription), "image")
  /\ Cardinality({k \in RequiredKeys :
                    ~Supplies(conversation.originalDescription, k)}) >= 2
  /\ \A i \in 1..Len(conversation.history) :
       Cardinality({k \in RequiredKeys :
                     Supplies(conversation.history[i].answer, k)}) = 1
  /\ \A k \in RequiredKeys : SuppliedInDialogue(conversation, k)

\* C1: without the enhancer, once the description and the answers given one
\* field at a time have together supplied every required field, the
\* conversation is complete and the reply carries a document.
C1_DialogueCompletes ==
  Answered /\ SuppliedFieldByField(conversationStore[response.conversation_id])
    => /\ conversationStore[response.conversation_id].complete
       /\ response.complete
       /\ response.yaml # NO_YAML
\* Two answers, one field each, have supplied all that the description lacked.
C1_Witness ==
  Answered /\ SuppliedFieldByField(conversationStore[response.conversation_id])

\* C2: after an answer submission the stored missing labels of every
\* conversation are the evaluator's result on its stored currentParams, and
\* the conversation is incomplete exactly while that result is non-empty.
C2_GapsFollowParams ==
  Answered =>
    \A id \in DOMAIN conversationStore :
      /\ conversationStore[id].missingParams
           = IdentifyMissingParams(conversationStore[id].currentParams)
      /\ conversationStore[id].complete
           = (IdentifyMissingParams(conversationStore[id].currentParams) = <<>>)
\* A second answer was merged into the parameters of a conversation.
C2_Witness ==
  Answered /\ Len(conversationStore[response.conversation_id].history) = 2

\* C3: an answer's extraction is merged over the stored currentParams: a
\* top-level value is kept unless the extraction provides it, and the gpu and
\* env objects are merged key by key, so a gpu field or environment variable
\* that the extraction does not provide is preserved.
NestedKeys == {"gpu", "env"}
MergedOver(old, new, merged) ==
  /\ DOMAIN merged = DOMAIN old \cup DOMAIN new
  /\ \A k \in DOMAIN old \ DOMAIN new : merged[k] = old[k]
  /\ \A k \in DOMAIN new \ (NestedKeys \cap DOMAIN old) : merged[k] = new[k]
  /\ \A k \in NestedKeys \cap DOMAIN old \cap DOMAIN new :
       /\ DOMAIN merged[k] = DOMAIN old[k] \cup DOMAIN new[k]
       /\ \A f \in DOMAIN old[k] \ DOMAIN new[k] : merged[k][f] = old[k][f]
       /\ \A f \in DOMAIN new[k] : merged[k][f] = new[k][f]
C3_NestedMerge ==
  [][AnswerStep /\ response'.success =>
       MergedOver(conversationStore[response'.conversation_id].currentParams,
                  response'.processed.params,
                  conversationStore'[response'.conversation_id].currentParams)]_vars
\* An answer's extraction with a gpu object was merged over stored parameters
\* whose gpu object holds a field the extraction lacks.
C3_Witness ==
  /\ Answered
  /\ Has(response.processed.params, "gpu")
  /\ ~Has(response.processed.params.gpu, "model")
  /\ Len(conversationStore[response.conversation_id].history) = 2
  /\ Supplies(conversationStore[response.conversation_id].history[1].answer, "gpu")

\* C4: a natural_to_yaml request carrying a conversation id that is not in the
\* store fails, whatever else it carries, and leaves the store as it was.
UnknownIdStep ==
  /\ response'.op = "natural_to_yaml"
  /\ response'.request.conversation_id # NO_ID
  /\ response'.request.conversation_id \notin DOMAIN conversationStore
C4_UnknownIdFails ==
  [][UnknownIdStep => ~response'.success /\ conversationStore' = conversationStore]_vars
\* An answer for an id that is not stored was refused.
C4_Witness ==
  /\ response.op = "natural_to_yaml" /\ IsAnswerRequest(response.request)
  /\ ~response.success /\ response.error = "Conversation not found"
  /\ response.request.conversation_id \notin DOMAIN conversationStore
  /\ conversationStore # NoConversations

\* C5: when a conversation was created with missing labels and its first
\* answer, sent without an existing document, supplies every one of them, the
\* stored conversation is complete and the reply carries a document that
\* validates with no errors.
CreationGaps(conversation) ==
  IdentifyMissingParams(Extract(conversation.originalDescription))
FirstAnswerFillsGaps ==
  /\ Answered
  /\ response.request.existing_yaml = NO_YAML
  /\ Len(conversationStore[response.conversation_id].history) = 1
  /\ CreationGaps(conversationStore[response.conversation_id]) # <<>>
  /\ \A i \in 1..Len(CreationGaps(conversationStore[response.conversation_id])) :
       Supplies(response.request.answer,
                LabelKey[CreationGaps(conversationStore[response.conversation_id])[i]])
C5_AnswerCompletes ==
  FirstAnswerFillsGaps =>
    /\ conversationStore[response.conversation_id].complete
    /\ response.complete
    /\ response.yaml # NO_YAML
    /\ response.valid
    /\ response.errors = <<>>
\* A first answer supplied the one missing label and the reply is a valid
\* document.
C5_Witness ==
  FirstAnswerFillsGaps /\ response.complete /\ response.valid

\* ------------------------------------- the handler with CLAUDE_API_KEY set
ClaudeRequests ==
  RequestsOf({Say(<<CORES, RAM>>)}, {STORAGE}, {NO_YAML})
ClaudeInit ==
  /\ conversationStore = NoConversations
  /\ response = [op |-> "init"]
  /\ claudeApiKey = TRUE
  /\ claudeCalls = <<>>
  /\ inFlight = NoRequests
  /\ sdkCalls = <<>>
ClaudeNext == HandlerNext(ClaudeRequests)
ClaudeSpec == ClaudeInit /\ [][ClaudeNext]_vars

\* ------------------------------------------ deploy_compute and deploy_yaml
DEFAULT_CST_RATE_PER_HOUR == 3
MINIMUM_CST_BALANCE == DEFAULT_CST_RATE_PER_HOUR
RECOMMENDED_CST_BALANCE == DEFAULT_CST_RATE_PER_HOUR * 24
WARNING_CST_THRESHOLD == DEFAULT_CST_RATE_PER_HOUR * 2
MaxDeploys == 1

\* tokenDecimals[token.toUpperCase()] || 6
GetTokenDecimals(token) ==
  IF token \in {"CST", "cst", "USDC", "usdc"} THEN 6
  ELSE IF token \in {"ETH", "eth", "MATIC", "matic"} THEN 18
  ELSE 6
\* (parseFloat(amount.toString()) / 10^decimals).toString(): the decimal
\* numeral of the quotient, written as <<whole part, fraction in raw units>>.
FormatTokenAmount(amount, decimals) ==
  <<amount \div (10 ^ decimals), amount % (10 ^ decimals)>>
\* parseFloat(formatted) < n, for a whole number n.
Below(formatted, n) == formatted[1] < n
\* A balance check that lets every balance through.
SufficientAlways(unlockedBalanceNum) == TRUE
\* unlockedBalanceNum >= MINIMUM_CST_BALANCE
Sufficient(unlockedBalanceNum) == ~Below(unlockedBalanceNum, MINIMUM_CST_BALANCE)
BalanceMessage(unlockedBalanceNum, token) ==
  [kind |-> IF ~Sufficient(unlockedBalanceNum) THEN "insufficient"
            ELSE IF Below(unlockedBalanceNum, WARNING_CST_THRESHOLD) THEN "warning"
            ELSE IF Below(unlockedBalanceNum, RECOMMENDED_CST_BALANCE) THEN "recommend"
            ELSE "sufficient",
   balance |-> unlockedBalanceNum, token |-> token]
\* checkSufficientBalance after getUserBalance has returned balance.
CheckSufficientBalance(token, balance) ==
  [sufficient |-> Sufficient(FormatTokenAmount(balance.unlockedBalance,
                                               GetTokenDecimals(token))),
   balance |-> balance,
   formattedBalance |->
     [lockedBalance |->
        [raw |-> balance.lockedBalance,
         formatted |-> FormatTokenAmount(balance.lockedBalance, GetTokenDecimals(token))],
      unlockedBalance |->
        [raw |-> balance.unlockedBalance,
         formatted |-> FormatTokenAmount(balance.unlockedBalance, GetTokenDecimals(token))],
      token |-> balance.token,
      decimals |-> GetTokenDecimals(token)],
   minimumRequired |-> MINIMUM_CST_BALANCE,
   recommendedBalance |-> RECOMMENDED_CST_BALANCE,
   warningThreshold |-> WARNING_CST_THRESHOLD,
   message |-> BalanceMessage(FormatTokenAmount(balance.unlockedBalance,
                                                GetTokenDecimals(token)), token)]

\* const token = args.token || 'CST'
TokenOfArgs(args) == IF args.token = "" THEN "CST" ELSE args.token
NO_CHECK == [sufficient |-> FALSE]
NO_MESSAGE == [kind |-> "null"]
\* A handler invocation: where it is suspended, and what it holds.
Frame(args, pc, balanceCheck) == [args |-> args, pc |-> pc, balanceCheck |-> balanceCheck]
SdkCall(api, r, input) == [api |-> api, request |-> r, input |-> input]
\* The catch block's reply: { success: false, error }.
DeployFailure(r, args, error) ==
  [op |-> args.operation, request |-> r, success |-> FALSE, error |-> error]
\* { success: true, leaseId, message, balanceInfo }
DeploySuccess(r, args, leaseId, balanceCheck) ==
  [op |-> args.operation, request |-> r, success |-> TRUE, leaseId |-> leaseId,
   balanceInfo |->
     [currentBalance |-> balanceCheck.formattedBalance.unlockedBalance.formatted,
      token |-> TokenOfArgs(args),
      minimumRequired |-> MINIMUM_CST_BALANCE,
      recommendedBalance |-> RECOMMENDED_CST_BALANCE,
      warning |-> IF Below(balanceCheck.formattedBalance.unlockedBalance.formatted,
                           WARNING_CST_THRESHOLD)
                  THEN balanceCheck.message ELSE NO_MESSAGE]]

\* Raw unlocked balances around the minimum, the warning threshold and the
\* recommended balance of a token with six decimals.
RawBalances == {0, 2999999, 3000000, 5999999, 6000000, 72000000}
BalanceOutcomes ==
  {[kind |-> "error"]}
  \cup {[kind |-> "balance", lockedBalance |-> 1000000, unlockedBalance |-> raw,
          token |-> "CST"] : raw \in RawBalances}
DeploymentOutcomes == {[kind |-> "error"], [kind |-> "lease", leaseId |-> 7]}
DeployArgs ==
  [operation : {"deploy_compute", "deploy_yaml"}, yaml : {"content", "path", "none"},
   token : {"", "USDC"}]

\* The handler has the YAML text and calls checkSufficientBalance, which
\* awaits getUserBalance.
AwaitBalance(r, args) ==
  /\ inFlight' = (r :> Frame(args, "getUserBalance", NO_CHECK)) @@ inFlight
  /\ sdkCalls' = Append(sdkCalls, SdkCall("getUserBalance", r, TokenOfArgs(args)))
  /\ UNCHANGED response
\* A request arrives: yaml_content is taken, yaml_path is read, neither fails.
DeployStart(r, args) ==
  /\ r = Cardinality(DOMAIN inFlight) + 1
  /\ CASE args.yaml = "content" -> AwaitBalance(r, args)
       [] args.yaml = "path" ->
            /\ inFlight' = (r :> Frame(args, "readFile", NO_CHECK)) @@ inFlight
            /\ UNCHANGED <<response, sdkCalls>>
       [] OTHER ->
            /\ inFlight' = (r :> Frame(args, "done", NO_CHECK)) @@ inFlight
            /\ response' = DeployFailure(r, args,
                              "Either yaml_content or yaml_path must be provided")
            /\ UNCHANGED sdkCalls
  /\ UNCHANGED <<conversationStore, claudeApiKey, claudeCalls>>
\* readFile settles.
ReadFileDone(r, read) ==
  /\ r \in DOMAIN inFlight /\ inFlight[r].pc = "readFile"
  /\ IF read THEN AwaitBalance(r, inFlight[r].args)
     ELSE /\ inFlight' = [inFlight EXCEPT ![r].pc = "done"]
          /\ response' = DeployFailure(r, inFlight[r].args, "Failed to read YAML file")
          /\ UNCHANGED sdkCalls
  /\ UNCHANGED <<conversationStore, claudeApiKey, claudeCalls>>
\* getUserBalance settles: the check is evaluated, and the handler either
\* throws the insufficient-balance message or calls createDeployment.
GetUserBalanceDone(r, outcome) ==
  /\ r \in DOMAIN inFlight /\ inFlight[r].pc = "getUserBalance"
  /\ IF outcome.kind = "error"
     THEN /\ inFlight' = [inFlight EXCEPT ![r].pc = "done"]
          /\ response' = DeployFailure(r, inFlight[r].args, "getUserBalance failed")
          /\ UNCHANGED sdkCalls
     ELSE \E balanceCheck \in {CheckSufficientBalance(TokenOfArgs(inFlight[r].args), outcome)} :
            IF ~balanceCheck.sufficient
            THEN /\ inFlight' = [inFlight EXCEPT ![r].pc = "done",
                                                  ![r].balanceCheck = balanceCheck]
                 /\ response' = DeployFailure(r, inFlight[r].args, balanceCheck.message)
                 /\ UNCHANGED sdkCalls
            ELSE /\ inFlight' = [inFlight EXCEPT ![r].pc = "createDeployment",
                                                  ![r].balanceCheck = balanceCheck]
                 /\ sdkCalls' = Append(sdkCalls,
                                   SdkCall("createDeployment", r, inFlight[r].args.yaml))
                 /\ UNCHANGED response
  /\ UNCHANGED <<conversationStore, claudeApiKey, claudeCalls>>
\* createDeployment settles.
CreateDeploymentDone(r, outcome) ==
  /\ r \in DOMAIN inFlight /\ inFlight[r].pc = "createDeployment"
  /\ inFlight' = [inFlight EXCEPT ![r].pc = "done"]
  /\ response' = IF outcome.kind = "error"
                 THEN DeployFailure(r, inFlight[r].args, "createDeployment failed")
                 ELSE DeploySuccess(r, inFlight[r].args, outcome.leaseId,
                                    inFlight[r].balanceCheck)
  /\ UNCHANGED <<conversationStore, claudeApiKey, claudeCalls, sdkCalls>>
DeployNext ==
  \E r \in 1..MaxDeploys :
    \/ \E args \in DeployArgs : DeployStart(r, args)
    \/ \E read \in BOOLEAN : ReadFileDone(r, read)
    \/ \E outcome \in BalanceOutcomes : GetUserBalanceDone(r, outcome)
    \/ \E outcome \in DeploymentOutcomes : CreateDeploymentDone(r, outcome)
DeploySpec == Init /\ [][DeployNext]_vars

\* ------------------------- answer submissions suspended at the enhancer
Submissions == {1, 2}
STARTED_ID == GenerateId(0, 1)
StartRequest == Request(Say(<<CORES, RAM>>), NO_ID, <<>>, NO_YAML)
StartProcessed ==
  ProcessDescription(StartRequest.description, TRUE, Outcome("error", NoParams))
ConcurrentRequests ==
  {Request(<<>>, STARTED_ID, a, NO_YAML) : a \in {STORAGE, HOURS, STORAGE \o HOURS}}
  \cup {Request(<<>>, GenerateId(0, 2), STORAGE, NO_YAML)}
NOT_PROCESSED == [params |-> NoParams, missingParams |-> <<>>]
\* An invocation of the answer branch: its arguments, the await it is
\* suspended at, what getConversation returned when it started, and what
\* processDescription returned.
AnswerFrame(req, pc, conversation, processed) ==
  [args |-> req, pc |-> pc, conversation |-> conversation, processed |-> processed]
\* A handler that works on a copy of the conversation taken when it started.
HeldCopy(store, frame) == frame.conversation
\* The handler's conversation is the stored object itself (getConversation
\* returns the Map's value, updateConversation mutates it in place), so a
\* read after an await sees what other submissions have written.
Held(store, frame) == store[frame.args.conversation_id]

\* One description has been submitted and answered with a question.
ConcurrentInit ==
  /\ conversationStore = DescriptionStore(NoConversations, STARTED_ID, StartRequest,
                                          StartProcessed)
  /\ response = Success(StartRequest, STARTED_ID, StartProcessed, StartProcessed.params,
                        GenerateQuestion(StartProcessed.missingParams, TRUE,
                                         Outcome("error", NoParams)))
  /\ claudeApiKey = TRUE
  /\ claudeCalls = CallsMade(StartProcessed.missingParams, TRUE,
                             Outcome("error", NoParams), Outcome("error", NoParams))
  /\ inFlight = NoRequests
  /\ sdkCalls = <<>>
\* An answer arrives: getConversation, then processDescription extracts and
\* awaits enhanceWithClaude.
AnswerStart(r, req) ==
  /\ r \notin DOMAIN inFlight /\ IsAnswerRequest(req)
  /\ IF req.conversation_id \notin DOMAIN conversationStore
     THEN /\ response' = Failure(req, "Conversation not found")
          /\ inFlight' = (r :> AnswerFrame(req, "done", NoParams, NOT_PROCESSED)) @@ inFlight
     ELSE /\ inFlight' = (r :> AnswerFrame(req, "enhanceWithClaude",
                                 conversationStore[req.conversation_id], NOT_PROCESSED))
                          @@ inFlight
          /\ UNCHANGED response
  /\ UNCHANGED <<conversationStore, claudeApiKey, claudeCalls, sdkCalls>>
\* enhanceWithClaude settles: the handler merges, updates the conversation,
\* and either awaits the follow-up question or renders, completes and replies.
AnswerProcessed(r, enhance) ==
  /\ r \in DOMAIN inFlight /\ inFlight[r].pc = "enhanceWithClaude"
  /\ \E req \in {inFlight[r].args}, conversation \in {Held(conversationStore, inFlight[r])} :
       \E processed \in {ProcessDescription(CombinedDescription(conversation, req.answer),
                                             claudeApiKey, enhance)} :
         /\ conversationStore' = UpdatedStore(conversationStore, conversation, req,
                                              processed)
         /\ IF Len(processed.missingParams) > 0
            THEN /\ inFlight' = [inFlight EXCEPT ![r].pc = "generateFollowUpQuestion",
                                                  ![r].processed = processed]
                 /\ UNCHANGED response
            ELSE /\ inFlight' = [inFlight EXCEPT ![r].pc = "done",
                                                  ![r].processed = processed]
                 /\ response' = Complete(req, req.conversation_id, processed,
                                   YamlContent(req.existing_yaml,
                                     conversationStore'[req.conversation_id].currentParams))
  /\ claudeCalls' = Append(claudeCalls, [api |-> "enhance", outcome |-> enhance.kind])
  /\ UNCHANGED <<claudeApiKey, sdkCalls>>
\* generateFollowUpQuestion settles and the handler replies with the question.
QuestionAsked(r, ask) ==
  /\ r \in DOMAIN inFlight /\ inFlight[r].pc = "generateFollowUpQuestion"
  /\ inFlight' = [inFlight EXCEPT ![r].pc = "done"]
  /\ response' = Incomplete(inFlight[r].args, inFlight[r].args.conversation_id,
                    inFlight[r].processed,
                    GenerateQuestion(inFlight[r].processed.missingParams, claudeApiKey, ask))
  /\ claudeCalls' = Append(claudeCalls, [api |-> "askFollowUp", outcome |-> ask.kind])
  /\ UNCHANGED <<conversationStore, claudeApiKey, sdkCalls>>
ConcurrentNext ==
  \E r \in Submissions :
    \/ \E req \in ConcurrentRequests : AnswerStart(r, req)
    \/ \E enhance \in EnhanceCalls : AnswerProcessed(r, enhance)
    \/ \E ask \in QuestionCalls : QuestionAsked(r, ask)
ConcurrentSpec == ConcurrentInit /\ [][ConcurrentNext]_vars

\* ------------------------------- a dialogue that names a region on the way
EAST == <<W("eastcoast")>>
RegionRequests ==
  RequestsOf({Say(<<CORES, RAM>>)}, {EAST, STORAGE \o HOURS}, {NO_YAML})
RegionNext == HandlerNext(RegionRequests)
RegionSpec == Init /\ [][RegionNext]_vars

\* ------------------------- the extractor and the evaluator called on their own
\* A parameter object with the key absent or holding one of the values.
Optional(k, values) == {NoParams} \cup {[x \in {k} |-> v] : v \in values}
EvaluatorParams ==
  { Spread(Spread(Spread(Spread(Spread(c, m), s), d), i), g) :
      c \in Optional("cpu", {0, 8}),
      m \in Optional("memory", {<<>>, <<16, "Gi">>}),
      s \in Optional("storage", {<<>>, <<200, "Gi">>}),
      d \in Optional("duration", {<<>>, <<2, "h">>}),
      i \in Optional("image", {"", JUPYTER_IMAGE, "tensorflow/tensorflow:latest",
                               "nginx:latest"}),
      g \in Optional("gpu", {NoParams, [model |-> "a100", units |-> 1]}) }
GpuPhrases ==
  { <<>>, <<W("NVIDIA"), W("RTX"), Num(4090), W("GPU")>>, <<W("RTX"), Num(4090)>>,
    <<W("rtx"), Num(6000), W("Ada")>>, <<W("A100")>>, <<W("H100")>>, <<W("T4")>>,
    <<W("V100")>>, <<W("gtx")>>, <<Num(2), W("gpus")>>, <<Num(1), W("GPU")>> }
RegionPhrases ==
  { <<>>, <<W("us-west")>>, <<W("westcoast")>>, <<W("us-east")>>, <<W("eastcoast")>>,
    <<W("eu-west")>>, <<W("ap-southeast")>> }
MemoryPhrases ==
  { <<>> } \cup
  { <<Num(16), W(u), W("RAM")>> :
      u \in {"GB", "Gb", "gb", "GiB", "gib", "G", "g", "MB", "mb", "MiB", "mib", "M", "m"} }
StoragePhrases ==
  { <<>> } \cup
  { <<Num(200), W(u), W("storage")>> :
      u \in {"GB", "Gb", "gb", "GiB", "gib", "G", "g", "TB", "tb", "TiB", "tib", "T", "t"} }
\* "... a Jupyter notebook with PyTorch and CUDA support, 8 CPU cores, 16GB
\* RAM, 200GB storage, and an NVIDIA RTX 4090 GPU for 2 hours"
README_EXAMPLE ==
  <<W("Jupyter"), W("notebook"), W("with"), W("PyTorch"), W("and"), W("CUDA"),
    W("support"), Num(8), W("CPU"), W("cores")>> \o RAM \o STORAGE
    \o <<W("and"), W("an"), W("NVIDIA"), W("RTX"), Num(4090), W("GPU"), W("for")>>
    \o HOURS
DurationPhrases ==
  { <<Num(n), W(u)>> :
      n \in {0, 1, 2, 3},
      u \in {"hour", "hours", "hr", "hrs", "day", "days", "week", "weeks", "month",
             "months"} }
ExtractorTexts ==
  { pre \o g \o r : pre \in {<<>>, CORES}, g \in GpuPhrases, r \in RegionPhrases }
  \cup { pre \o t : pre \in {<<>>, CORES}, t \in DurationPhrases }
  \cup { README_EXAMPLE }
  \cup { pre \o m \o s : pre \in {<<>>, CORES}, m \in MemoryPhrases, s \in StoragePhrases }

Call(fn, arg) == [op |-> "call", fn |-> fn, arg |-> arg]
Return(fn, arg, result) == [op |-> "return", fn |-> fn, arg |-> arg, result |-> result]
FunctionInit ==
  /\ conversationStore = NoConversations
  /\ response \in {Call("identifyMissingParams", p) : p \in EvaluatorParams}
                  \cup {Call("extractFromDescription", d) : d \in ExtractorTexts}
  /\ claudeApiKey = FALSE
  /\ claudeCalls = <<>>
  /\ inFlight = NoRequests
  /\ sdkCalls = <<>>
IdentifyMissingParamsCall ==
  /\ response.op = "call" /\ response.fn = "identifyMissingParams"
  /\ response' = Return(response.fn, response.arg, IdentifyMissingParams(response.arg))
  /\ UNCHANGED <<conversationStore, claudeApiKey, claudeCalls, inFlight, sdkCalls>>
ExtractFromDescriptionCall ==
  /\ response.op = "call" /\ response.fn = "extractFromDescription"
  /\ response' = Return(response.fn, response.arg, ExtractFromDescription(response.arg))
  /\ UNCHANGED <<conversationStore, claudeApiKey, claudeCalls, inFlight, sdkCalls>>
FunctionNext == IdentifyMissingParamsCall \/ ExtractFromDescriptionCall
FunctionSpec == FunctionInit /\ [][FunctionNext]_vars

\* ------------------------------ the YAML updater and validator called on their own
\* Parameters of a service other than the default one, with no GPU.
WEB_PARAMS ==
  [name |-> "web", image |-> "nginx:latest", pullPolicy |-> "Always",
   cpu |-> 4, memory |-> <<8, "Gi">>, storage |-> <<100, "Gi">>,
   duration |-> <<1, "h">>, mode |-> "provider", region |-> "eastcoast",
   amount |-> 3, count |-> 1]
\* A mapping without the key k, and a document with another pricing token.
Drop(c, k) == [x \in DOMAIN c \ {k} |-> c[x]]
WithToken(c, token) ==
  [c EXCEPT !.profiles.placement[1].v.pricing[1].v.token = token]
\* Valid documents of one service, as generateYaml writes them.
ExistingConfigs ==
  { GenerateYaml(NoParams).val, GenerateYaml(MergeWithDefaults(NoParams)).val,
    GenerateYaml(WEB_PARAMS).val }
\* Parameter objects holding one field, none, or all of them.
PatchFields ==
  [image |-> "tensorflow/tensorflow:latest", pullPolicy |-> "Never",
   ports |-> <<[port |-> 80, as |-> 8080, global |-> FALSE]>>,
   env |-> [HF_TOKEN |-> "secret"], name |-> "job", duration |-> <<3, "d">>,
   mode |-> "fizz", cpu |-> 2, memory |-> <<16, "Gi">>, storage |-> <<200, "Gi">>,
   gpu |-> [model |-> "a100", units |-> 2], region |-> "us-central", amount |-> 9,
   count |-> 3]
PatchParams ==
  { [k \in keys |-> PatchFields[k]] :
      keys \in {{}, DOMAIN PatchFields} \cup {{k} : k \in DOMAIN PatchFields}
                \cup {{"name", "region"}, {"cpu", "gpu"}, {"cpu", "memory"}} }
\* Texts that do not load as a mapping.
UnparsedTexts == {Text("malformed"), NO_YAML, Text("null"), Text("scalar")}
\* Documents that lack a part, or hold a wrong one.
BrokenTop(c) ==
  { Drop(c, k) : k \in DOMAIN c }
  \cup { [c EXCEPT !.version = "2.0"], [c EXCEPT !.services = <<>>],
         [c EXCEPT !.deployment = <<>>] }
BrokenProfiles(c) ==
  { [c EXCEPT !.profiles = Drop(c.profiles, k)] : k \in DOMAIN c.profiles \ {"placement"} }
  \cup { [c EXCEPT !.profiles.compute = <<>>],
         [c EXCEPT !.profiles.mode = ""],
         [c EXCEPT !.profiles.placement = <<>>],
         [c EXCEPT !.profiles.placement[1].v = NoParams],
         [c EXCEPT !.profiles.placement[1].v.pricing = <<>>],
         [c EXCEPT !.profiles.placement[1].v = NULL_PLACEMENT],
         [c EXCEPT !.profiles.placement =
            @ \o <<Entry("eastcoast", [pricing |-> <<Entry("py-cuda",
                      [token |-> "USDT", amount |-> 1])>>])>>],
         [c EXCEPT !.profiles.placement =
            <<Entry("eastcoast", NULL_PLACEMENT)>> \o @],
         [c EXCEPT !.profiles = Drop(c.profiles, "placement")],
         WithToken(c, "USDT") }
ValidatedTexts ==
  UnparsedTexts
  \cup { Dump(c) : c \in ExistingConfigs }
  \cup { Dump(b) : b \in UNION { BrokenTop(c) \cup BrokenProfiles(c) : c \in ExistingConfigs } }
  \cup { Dump(b) : b \in UNION { BrokenTop(c) :
                                  c \in BrokenProfiles(GenerateYaml(NoParams).val) } }
  \cup { Dump(b) : b \in UNION { BrokenProfiles(c) :
                                  c \in BrokenProfiles(GenerateYaml(NoParams).val)
                                         \ { d \in BrokenProfiles(GenerateYaml(NoParams).val) :
                                               \/ ~Has(d.profiles, "placement")
                                               \/ d.profiles.placement = <<>>
                                               \/ ~Has(d.profiles.placement[1].v, "pricing")
                                               \/ d.profiles.placement[1].v.pricing = <<>> } } }
UpdatedTexts ==
  UnparsedTexts
  \cup { Dump(c) : c \in ExistingConfigs }
  \cup { Dump(WithToken(c, "USDT")) : c \in ExistingConfigs }

YamlInit ==
  /\ conversationStore = NoConversations
  /\ response \in {Call("validateYaml", t) : t \in ValidatedTexts}
                  \cup {Call("updateYaml", [yaml |-> t, params |-> p]) :
                          t \in UpdatedTexts, p \in PatchParams}
  /\ claudeApiKey = FALSE
  /\ claudeCalls = <<>>
  /\ inFlight = NoRequests
  /\ sdkCalls = <<>>
ValidateYamlCall ==
  /\ response.op = "call" /\ response.fn = "validateYaml"
  /\ response' = Return(response.fn, response.arg, ValidateYaml(response.arg))
  /\ UNCHANGED <<conversationStore, claudeApiKey, claudeCalls, inFlight, sdkCalls>>
UpdateYamlCall ==
  /\ response.op = "call" /\ response.fn = "updateYaml"
  /\ response' = Return(response.fn, response.arg,
                        UpdateYaml(response.arg.yaml, response.arg.params))
  /\ UNCHANGED <<conversationStore, claudeApiKey, claudeCalls, inFlight, sdkCalls>>
YamlNext == ValidateYamlCall \/ UpdateYamlCall
YamlSpec == YamlInit /\ [][YamlNext]_vars

\* ------------------------------------------------- the history's contracts
\* The step just taken stored a new conversation under id.
CreatedNow(id) ==
  /\ response'.conversation_id = id
  /\ \/ response'.op = "create"
     \/ response'.op = "natural_to_yaml" /\ response'.success /\ ~AnswerStep
\* The step just taken was a successful answer submission to conversation id:
\* updateConversation on a stored id, called directly or by natural_to_yaml.
AnswerSubmitted(id) ==
  /\ response'.conversation_id = id
  /\ \/ response'.op = "update" /\ response'.found
     \/ AnswerStep /\ response'.success
IsPrefix(h, g) == Len(h) <= Len(g) /\ SubSeq(g, 1, Len(h)) = h

\* C11: across every operation on a stored conversation (get, update,
\* complete, delete of another conversation, and every natural_to_yaml request)
\* the history before the step is a prefix of the history after it; its length
\* grows by exactly one when the step is a successful answer submission to
\* that conversation and by zero otherwise.
C11_HistoryAppendOnly ==
  [][\A id \in DOMAIN conversationStore \cap DOMAIN conversationStore' :
       ~CreatedNow(id) =>
         /\ IsPrefix(conversationStore[id].history, conversationStore'[id].history)
         /\ Len(conversationStore'[id].history) =
              Len(conversationStore[id].history)
                + (IF AnswerSubmitted(id) THEN 1 ELSE 0)]_vars
\* A conversation answered twice, through updateConversation directly and
\* through natural_to_yaml, holds the two pairs in the order of the answers.
C11_Witness ==
  /\ Answered
  /\ Len(conversationStore[response.conversation_id].history) = 2
  /\ conversationStore[response.conversation_id].history[1].answer = STORAGE
  /\ conversationStore[response.conversation_id].history[1].question # NO_QUESTION
  /\ conversationStore[response.conversation_id].history[2].answer = HOURS

\* ------------------------------------------------ the complete flag's contracts
\* Conversation id was finalized by completeConversation while labels were
\* missing: no other call stores complete together with a non-empty list.
Finalized(id) ==
  conversationStore[id].complete /\ conversationStore[id].missingParams # <<>>
NoGapsMeansComplete ==
  \A id \in DOMAIN conversationStore :
    conversationStore[id].missingParams = <<>> => conversationStore[id].complete

\* C12 as stated: complete holds whenever no label is missing, and a
\* conversation finalized by completeConversation stays complete under every
\* later operation on it.
C12_StaysComplete ==
  /\ []NoGapsMeansComplete
  /\ [][\A id \in DOMAIN conversationStore \cap DOMAIN conversationStore' :
          Finalized(id) /\ ~CreatedNow(id) => conversationStore'[id].complete]_vars

\* C12, amended: complete holds whenever no label is missing;
\* completeConversation sets it; get, and every call on another conversation,
\* leave it as it was; an answer submission (updateConversation) sets it to
\* (the new missing list is empty), so a finalized conversation that is
\* given a non-empty list is incomplete again.
C12_CompleteFlag ==
  /\ []NoGapsMeansComplete
  /\ [][\A id \in DOMAIN conversationStore \cap DOMAIN conversationStore' :
          ~CreatedNow(id) =>
            IF AnswerSubmitted(id)
            THEN conversationStore'[id].complete
                   = (conversationStore'[id].missingParams = <<>>)
            ELSE IF response'.op = "complete" /\ response'.conversation_id = id
            THEN conversationStore'[id].complete
            ELSE conversationStore'[id].complete = conversationStore[id].complete]_vars
\* A conversation with missing labels was finalized by completeConversation.
C12_Witness ==
  /\ response.op = "complete" /\ response.found
  /\ Finalized(response.conversation_id)

\* ------------------------------------------------ the response's contracts
\* { conversation_id, complete: false, question, missing_params } and nothing else.
IncompleteShape(r) ==
  /\ ~r.complete
  /\ r.question # NO_QUESTION
  /\ r.missing_params # <<>> /\ r.missing_params = r.processed.missingParams
  /\ r.yaml = NO_YAML
\* { conversation_id, complete: true, yaml, valid, errors } and nothing else.
CompleteShape(r) ==
  /\ r.complete
  /\ r.yaml # NO_YAML
  /\ [valid |-> r.valid, errors |-> r.errors] = ValidateYaml(r.yaml)
  /\ r.question = NO_QUESTION /\ r.missing_params = <<>>

ProcessedText ==
  IF AnswerStep
  THEN CombinedDescription(conversationStore[response'.request.conversation_id],
                           response'.request.answer)
  ELSE response'.request.description
\* The enhance call of the step just taken failed in transport, or returned
\* text holding no parseable object.
EnhanceFailed ==
  /\ claudeCalls' # <<>>
  /\ claudeCalls'[1].api = "enhance"
  /\ claudeCalls'[1].outcome \in {"error", "noobject"}

\* C14: when the enhance call fails in transport or returns text with no
\* parseable object, the request succeeds and its parameters and missing
\* labels, and the conversation it stores, are those of the same request
\* processed with no key configured.
C14_EnhanceFailureNotFatal ==
  [][EnhanceFailed =>
       /\ response'.success
       /\ response'.processed = ProcessDescription(ProcessedText, FALSE, NO_CALL)
       /\ conversationStore'[response'.conversation_id].currentParams =
            IF AnswerStep
            THEN MergeParams(
                   conversationStore[response'.conversation_id].currentParams,
                   response'.processed.params)
            ELSE response'.processed.params
       /\ conversationStore'[response'.conversation_id].missingParams =
            response'.processed.missingParams]_vars
\* An answer whose enhance call returned no object was processed to the
\* extracted parameters, with the duration still missing.
C14_Witness ==
  /\ Answered
  /\ claudeCalls # <<>> /\ claudeCalls[1] = [api |-> "enhance", outcome |-> "noobject"]
  /\ response.processed.params.cpu = 8
  /\ Has(response.processed.params, "storage")
  /\ response.processed.missingParams = <<"duration">>

\* The calls of the last request whose api is the given one.
CallsTo(api) == {i \in DOMAIN claudeCalls : claudeCalls[i].api = api}

Returned(fn) == response.op = "return" /\ response.fn = fn
\* The four required fields in the order of their tests, with their labels.
RequiredFields ==
  << <<"cpu", "CPU cores">>, <<"memory", "memory (RAM)">>, <<"storage", "storage">>,
     <<"duration", "duration">> >>
RECURSIVE LabelsOf(_)
LabelsOf(fields) ==
  IF fields = <<>> THEN <<>> ELSE <<Head(fields)[2]>> \o LabelsOf(Tail(fields))
\* The image string names a GPU workload and the parameters hold no GPU.
GpuWanted(p) ==
  /\ Has(p, "image")
  /\ p.image \in {JUPYTER_IMAGE, "tensorflow/tensorflow:latest"}
  /\ ~Has(p, "gpu")
GpuLabel(p) == IF GpuWanted(p) THEN <<"GPU model">> ELSE <<>>
AbsentLabels(p) ==
  LET Absent(f) == ~Has(p, f[1])
  IN LabelsOf(SelectSeq(RequiredFields, Absent)) \o GpuLabel(p)
\* A field is empty when it is absent or holds 0 or the empty string.
EmptyLabels(p) ==
  LET Empty(f) == \/ ~Has(p, f[1])
                  \/ IF f[1] = "cpu" THEN p[f[1]] = 0 ELSE p[f[1]] = <<>>
  IN LabelsOf(SelectSeq(RequiredFields, Empty)) \o GpuLabel(p)

\* C16 as stated: identifyMissingParams returns exactly the labels of the
\* absent fields among cpu, memory, storage and duration, in that order,
\* followed by "GPU model" iff the image names cuda, pytorch or tensorflow and
\* no GPU is present.
C16_MissingIsAbsent ==
  Returned("identifyMissingParams") => response.result = AbsentLabels(response.arg)

\* C16, amended: identifyMissingParams returns exactly the labels of the
\* fields among cpu, memory, storage and duration that are absent or hold 0
\* or the empty string, in that order, followed by "GPU model" iff the image
\* names cuda, pytorch or tensorflow and no GPU is present.
C16_MissingIsEmpty ==
  Returned("identifyMissingParams") => response.result = EmptyLabels(response.arg)
\* Parameters holding cpu 0 and a tensorflow image without a GPU were
\* evaluated: the CPU label and the GPU label are returned.
C16_Witness ==
  /\ Returned("identifyMissingParams")
  /\ Has(response.arg, "cpu") /\ response.arg.cpu = 0
  /\ Has(response.arg, "duration") /\ response.arg.duration = <<2, "h">>
  /\ response.result = <<"CPU cores", "GPU model">>

\* ------------------------------------------------ the extractor's contracts
\* The numbers the text gives as a GPU count ("2 gpus").
GpuCounts(d) ==
  {d[i].n : i \in {j \in 1..(Len(d) - 1) :
                     IsNum(d[j]) /\ IsWord(d[j + 1])
                       /\ ToLowerCase(d[j + 1].w) \in {"gpu", "gpus"}}}
\* No alternative of GPU_REGEX matches anywhere in the text.
NoModelKeyword(d) == GpuMatch(d) = 0

\* C17 as stated: when no GPU model keyword matches, extraction leaves the GPU
\* field unset, even when the text holds a GPU count.
C17_CountAloneNoGpu ==
  (Returned("extractFromDescription") /\ NoModelKeyword(response.arg))
    => ~Has(response.result, "gpu")

\* C17, amended: when no GPU model keyword matches, extraction leaves the GPU
\* field unset if the text holds no GPU count, and otherwise sets it to an
\* object holding the count as units and no model.
C17_CountAloneGivesUnits ==
  (Returned("extractFromDescription") /\ NoModelKeyword(response.arg))
    => IF GpuCounts(response.arg) = {} THEN ~Has(response.result, "gpu")
       ELSE /\ Has(response.result, "gpu")
            /\ DOMAIN response.result.gpu = {"units"}
            /\ response.result.gpu.units \in GpuCounts(response.arg)
\* "8 cores 2 gpus" was extracted to a GPU of two units.
C17_Witness ==
  /\ Returned("extractFromDescription")
  /\ response.arg = CORES \o <<Num(2), W("gpus")>>
  /\ response.result.gpu = [units |-> 2]

\* The text holds the words of phrase, in order and next to each other
\* (letter case aside).
SameToken(a, b) == a.n = b.n /\ ToLowerCase(a.w) = ToLowerCase(b.w)
Names(d, phrase) ==
  \E i \in 0..(Len(d) - Len(phrase)) :
    \A j \in 1..Len(phrase) : SameToken(d[i + j], phrase[j])
\* The model of the closed set that the text names; the default rtx6000-ada
\* for a keyword that names none of them.
NamedModel(d) ==
  IF Names(d, <<W("rtx"), Num(4090)>>) THEN "rtx4090"
  ELSE IF Names(d, <<W("rtx"), Num(6000), W("ada")>>) THEN "rtx6000-ada"
  ELSE IF \E m \in {"a100", "h100", "t4", "v100"} : Names(d, <<W(m)>>)
       THEN CHOOSE m \in {"a100", "h100", "t4", "v100"} : Names(d, <<W(m)>>)
  ELSE "rtx6000-ada"
GPU_MODELS == {"rtx4090", "rtx6000-ada", "a100", "h100", "t4", "v100"}

\* C18: a text that names an RTX 4090 ("NVIDIA RTX 4090 GPU") is extracted to
\* the GPU model rtx4090, and whenever a GPU keyword matches, the extracted
\* model is the member of {rtx4090, rtx6000-ada, a100, h100, t4, v100} that the
\* text names.
C18_GpuModelNormalized ==
  (Returned("extractFromDescription") /\ ~NoModelKeyword(response.arg))
    => /\ Has(response.result, "gpu") /\ Has(response.result.gpu, "model")
       /\ response.result.gpu.model \in GPU_MODELS
       /\ response.result.gpu.model = NamedModel(response.arg)
\* The README's example was extracted to the default model and 4090 units.
C18_Witness ==
  /\ Returned("extractFromDescription")
  /\ response.arg = README_EXAMPLE
  /\ response.result.gpu = [model |-> "rtx6000-ada", units |-> 4090]

\* C19 as stated: a text containing "us-west", one containing "westcoast" and
\* one containing "us-east" are all extracted to the region westcoast.
C19_RegionAlwaysWest ==
  (Returned("extractFromDescription")
     /\ \E r \in {"us-west", "westcoast", "us-east"} : Names(response.arg, <<W(r)>>))
    => Has(response.result, "region") /\ response.result.region = "westcoast"

\* C19, amended: a text containing "us-west" or "westcoast" is extracted to
\* the region westcoast, one containing "us-east" or "eastcoast" to eastcoast,
\* and one containing another recognised region name to westcoast.
C19_RegionNormalized ==
  Returned("extractFromDescription") =>
    /\ (\E r \in {"us-west", "westcoast"} : Names(response.arg, <<W(r)>>))
         => Has(response.result, "region") /\ response.result.region = "westcoast"
    /\ (\E r \in {"us-east", "eastcoast"} : Names(response.arg, <<W(r)>>))
         => Has(response.result, "region") /\ response.result.region = "eastcoast"
    /\ (\E r \in {"eu-west", "ap-southeast"} : Names(response.arg, <<W(r)>>))
         => Has(response.result, "region") /\ response.result.region = "westcoast"
\* "8 cores us-east" was extracted to the region eastcoast.
C19_Witness ==
  /\ Returned("extractFromDescription")
  /\ response.arg = CORES \o <<W("us-east")>>
  /\ response.result.region = "eastcoast"

\* C20: for every accepted unit in every letter casing the extracted memory
\* and storage sizes end in Gi, Mi or Ti, and a text containing "8 cores" and
\* "16GB RAM" is extracted to cpu 8 and memory 16Gi.
C20_BinarySuffix ==
  Returned("extractFromDescription") =>
    /\ Has(response.result, "memory") => response.result.memory[2] \in {"Gi", "Mi"}
    /\ Has(response.result, "storage") => response.result.storage[2] \in {"Gi", "Ti"}
    /\ (Names(response.arg, CORES) /\ Names(response.arg, RAM))
         => /\ Has(response.result, "cpu") /\ response.result.cpu = 8
            /\ Has(response.result, "memory") /\ response.result.memory = <<16, "Gi">>
\* "8 cores 16GiB RAM 200TiB storage" was extracted to sizes ending in GIB and TIB.
C20_Witness ==
  /\ Returned("extractFromDescription")
  /\ response.arg = CORES \o <<Num(16), W("GiB"), W("RAM")>>
                          \o <<Num(200), W("TiB"), W("storage")>>
  /\ response.result.memory = <<16, "GIB">>
  /\ response.result.storage = <<200, "TIB">>

\* The hours of the leftmost duration the text gives, -1 when it gives none:
\* a day is 24 hours, a week 7 days, a month 30 days.
HoursPer ==
  [hour |-> 1, hours |-> 1, hr |-> 1, hrs |-> 1, day |-> 24, days |-> 24,
   week |-> 168, weeks |-> 168, month |-> 720, months |-> 720]
DurationsAt(d) ==
  {i \in 1..(Len(d) - 1) : IsNum(d[i]) /\ IsWord(d[i + 1]) /\ d[i + 1].w \in DOMAIN HoursPer}
HoursIn(d) ==
  IF DurationsAt(d) = {} THEN -1
  ELSE d[Leftmost(DurationsAt(d))].n * HoursPer[d[Leftmost(DurationsAt(d)) + 1].w]

FieldOf(c, k) ==
  CASE k = "image" -> c.services[1].v.image
    [] k = "pullPolicy" -> c.services[1].v.pull_policy
    [] k = "ports" -> c.services[1].v.expose
    [] k = "env" -> c.services[1].v.env
    [] k = "name" -> c.profiles.name
    [] k = "duration" -> c.profiles.duration
    [] k = "mode" -> c.profiles.mode
    [] k = "cpu" -> c.profiles.compute[1].v.resources.cpu.units
    [] k = "memory" -> c.profiles.compute[1].v.resources.memory.size
    [] k = "storage" -> c.profiles.compute[1].v.resources.storage[1].size
    [] k = "gpu" -> IF Has(c.profiles.compute[1].v.resources, "gpu")
                    THEN c.profiles.compute[1].v.resources.gpu ELSE NoParams
    [] k = "region" -> c.profiles.placement[1].k
    [] k = "amount" -> c.profiles.placement[1].v.pricing[1].v.amount
    [] k = "count" -> c.deployment[1].v[1].v.count
\* The value a parameter is written as.
Rendered(p, k) ==
  CASE k = "ports" -> GenerateExposeConfig(p)
    [] k = "env" -> GenerateEnvConfig(p)
    [] k = "gpu" -> GpuResource(p)
    [] OTHER -> p[k]
TokenOf(c) == c.profiles.placement[1].v.pricing[1].v.token
\* updateYaml returned from a call on a document that loads as a mapping.
UpdatedDocument ==
  Returned("updateYaml") /\ response.arg.yaml.kind = "yaml"

\* C22: updateYaml on a parseable single-service document is a sparse patch:
\* every field present in params has its value in the returned document,
\* every field absent from params keeps its existing value, and the pricing
\* token is CST; with empty params only the token can change.
C22_SparsePatch ==
  UpdatedDocument =>
    /\ response.result.kind = "yaml"
    /\ \A k \in DOMAIN PatchFields :
         FieldOf(response.result.val, k) =
           IF Has(response.arg.params, k) THEN Rendered(response.arg.params, k)
           ELSE FieldOf(response.arg.yaml.val, k)
    /\ TokenOf(response.result.val) = "CST"
    /\ response.arg.params = NoParams
         => response.result.val = WithToken(response.arg.yaml.val, "CST")
\* The default document was updated with the region us-central alone and
\* came back with the region westcoast.
C22_Witness ==
  /\ UpdatedDocument
  /\ response.arg.params = [region |-> "us-central"]
  /\ response.arg.yaml = GenerateYaml(NoParams)
  /\ FieldOf(response.result.val, "region") = "westcoast"
  /\ response.result = response.arg.yaml

\* C23: when the existing text does not load as a mapping (malformed, empty,
\* null, or a scalar), updateYaml returns exactly generateYaml(params).
C23_UnparsedFallsBack ==
  (Returned("updateYaml") /\ response.arg.yaml \in UnparsedTexts)
    => response.result = GenerateYaml(response.arg.params)
\* A text that loads as a plain string was updated with a CPU count and a GPU
\* and came back as it was.
C23_Witness ==
  /\ Returned("updateYaml")
  /\ response.arg.yaml = Text("scalar")
  /\ response.arg.params = [cpu |-> 2, gpu |-> [model |-> "a100", units |-> 2]]
  /\ response.result = Text("scalar")

\* ------------------------------------------------ the validator's contracts
\* A document with version 1.0, a service, duration, mode, compute, a
\* placement whose regions all have pricing with the token CST, and a
\* deployment section.
NonEmpty(c, k) == Has(c, k) /\ c[k] # <<>>
AllTokensCST(placement) ==
  \A i \in DOMAIN placement :
    /\ Has(placement[i].v, "pricing") /\ placement[i].v.pricing # <<>>
    /\ \A j \in DOMAIN placement[i].v.pricing :
         placement[i].v.pricing[j].v.token = "CST"
WellFormed(c) ==
  /\ Has(c, "version") /\ c.version = "1.0"
  /\ NonEmpty(c, "services") /\ NonEmpty(c, "deployment")
  /\ Has(c, "profiles")
  /\ NonEmpty(c.profiles, "duration") /\ Has(c.profiles, "mode") /\ c.profiles.mode # ""
  /\ NonEmpty(c.profiles, "compute") /\ NonEmpty(c.profiles, "placement")
  /\ AllTokensCST(c.profiles.placement)

\* C24: validateYaml returns {valid, errors} for every text, with valid true
\* iff errors is empty; a text that does not parse gives exactly one error;
\* and a parsed document is valid only if it has version 1.0, a service,
\* duration, mode, compute, placement with pricing whose tokens are all CST,
\* and a deployment section.
C24_ValidateTotal ==
  Returned("validateYaml") =>
    /\ DOMAIN response.result = {"valid", "errors"}
    /\ response.result.valid <=> (response.result.errors = <<>>)
    /\ LoadThrows(response.arg) => response.result.errors = <<INVALID_YAML>>
    /\ response.result.valid
         => response.arg.kind = "yaml" /\ WellFormed(response.arg.val)
\* A document whose second region is priced in another token was validated
\* and found invalid for that reason alone.
C24_Witness ==
  /\ Returned("validateYaml")
  /\ response.arg.kind = "yaml"
  /\ Has(response.arg.val, "profiles")
  /\ Has(response.arg.val.profiles, "placement")
  /\ Len(response.arg.val.profiles.placement) = 2
  /\ response.result =
       [valid |-> FALSE, errors |-> <<Err("Token must be CST", "eastcoast", "py-cuda")>>]

\* The keys of a mapping written as a sequence of entries.
KeysOf(entries) == { entries[i].k : i \in DOMAIN entries }
\* The profile references of the deployment section.
ProfileRefs(deployment) ==
  UNION { { deployment[i].v[j].v.profile : j \in DOMAIN deployment[i].v } :
          i \in DOMAIN deployment }

\* C29: updateYaml keeps a valid single-service document consistent: in the
\* returned document profiles.name and the deployment's profile reference
\* name a key under profiles.compute and under services, and the document
\* passes validateYaml.
C29_NamesStayConsistent ==
  (UpdatedDocument /\ ValidateYaml(response.arg.yaml).valid) =>
    /\ response.result.kind = "yaml"
    /\ {response.result.val.profiles.name} \cup ProfileRefs(response.result.val.deployment)
         \subseteq KeysOf(response.result.val.profiles.compute)
                     \cap KeysOf(response.result.val.services)
    /\ ValidateYaml(response.result).valid
\* The default document was renamed to job: the profile name and the
\* deployment reference say job, the service and its compute profile are
\* still py-cuda, and the validator accepts the document.
C29_Witness ==
  /\ UpdatedDocument
  /\ response.arg.yaml = GenerateYaml(NoParams)
  /\ response.arg.params = [name |-> "job"]
  /\ response.result.val.profiles.name = "job"
  /\ ProfileRefs(response.result.val.deployment) = {"job"}
  /\ KeysOf(response.result.val.services) = {"py-cuda"}
  /\ KeysOf(response.result.val.profiles.compute) = {"py-cuda"}
  /\ ValidateYaml(response.result).valid
\* The same consistency for every update whose params carry no name.
C29_ConsistentUnlessRenamed ==
  (UpdatedDocument /\ ValidateYaml(response.arg.yaml).valid
     /\ ~Has(response.arg.params, "name")) =>
    /\ response.result.kind = "yaml"
    /\ {response.result.val.profiles.name} \cup ProfileRefs(response.result.val.deployment)
         \subseteq KeysOf(response.result.val.profiles.compute)
                     \cap KeysOf(response.result.val.services)
    /\ ValidateYaml(response.result).valid

\* ------------------------------------------------- the handler's contracts
\* The response before the step was a successful natural_to_yaml reply about
\* the conversation that the step's answer submission is about.
RepliedBefore ==
  /\ response.op = "natural_to_yaml" /\ response.success
  /\ response.conversation_id = response'.conversation_id
LastEntry(conversation) == conversation.history[Len(conversation.history)]

\* C26: the history entry appended by an answer submission holds the question
\* field of the response to the previous turn of that conversation.
C26_QuestionAsReturned ==
  [][(AnswerStep /\ response'.success /\ RepliedBefore) =>
       LastEntry(conversationStore'[response'.conversation_id]).question
         = response.question]_vars
\* The first answer to a conversation that was created with missing fields,
\* and so was asked a question, is stored beside an empty question.
C26_Witness ==
  /\ Answered
  /\ conversationStore[response.conversation_id].originalDescription = Say(<<CORES, RAM>>)
  /\ conversationStore[response.conversation_id].history
       = <<[question |-> NO_QUESTION, answer |-> response.request.answer]>>

\* The document has a gpu entry under the resources of its compute profile.
HasGpuSection(text) ==
  text.kind = "yaml" /\ Has(text.val.profiles.compute[1].v.resources, "gpu")
\* The reply completes a description-only request with a generated document.
GeneratedFromDescription ==
  /\ response.op = "natural_to_yaml" /\ response.success /\ response.complete
  /\ IsDescriptionRequest(response.request) /\ ~IsAnswerRequest(response.request)
  /\ response.request.existing_yaml = NO_YAML

\* C27: without the enhancer, the document generated for a complete
\* description has a GPU section only if the extractor found a GPU in the
\* description.
C27_GpuOnlyIfRequested ==
  (GeneratedFromDescription /\ ~claudeApiKey /\ HasGpuSection(response.yaml))
    => Has(Extract(response.request.description), "gpu")
\* A complete description naming no GPU got a document with the default GPU.
C27_Witness ==
  /\ GeneratedFromDescription
  /\ response.request.description = Say(<<CORES, RAM, STORAGE, HOURS>>)
  /\ ~Has(Extract(response.request.description), "gpu")
  /\ response.yaml.val.profiles.compute[1].v.resources.gpu
       = GpuResource([gpu |-> DEFAULT_GPU])

\* The top-level fields that the text processed in the step does not supply.
NotExtractedNow(stored) == (DOMAIN stored \ NestedKeys) \ DOMAIN Extract(ProcessedText)

\* C28: when an answer completes a dialogue without the enhancer, every stored
\* top-level value that the text of the turn does not supply is kept in
\* currentParams, and the document carries the stored region.
C28_StoredValuesSurvive ==
  [][(AnswerStep /\ response'.success /\ response'.complete /\ ~claudeApiKey) =>
       /\ \A k \in NotExtractedNow(conversationStore[response'.conversation_id].currentParams) :
            conversationStore'[response'.conversation_id].currentParams[k]
              = conversationStore[response'.conversation_id].currentParams[k]
       /\ "region" \in NotExtractedNow(conversationStore[response'.conversation_id].currentParams)
            => FieldOf(response'.yaml.val, "region")
                 = conversationStore[response'.conversation_id].currentParams.region]_vars
\* After the answer eastcoast, the answer giving storage and duration
\* completed the dialogue with the region westcoast, stored and in the document.
C28_Witness ==
  /\ Answered /\ response.complete
  /\ Len(conversationStore[response.conversation_id].history) = 2
  /\ conversationStore[response.conversation_id].history[1].answer = EAST
  /\ response.request.answer = STORAGE \o HOURS
  /\ conversationStore[response.conversation_id].currentParams.region = "westcoast"
  /\ FieldOf(response.yaml.val, "region") = "westcoast"

\* ------------------------------------------- the deploy handler's contracts
Checked(r) == "balance" \in DOMAIN inFlight[r].balanceCheck
DeployCalls(r) ==
  { i \in DOMAIN sdkCalls :
      sdkCalls[i].api = "createDeployment" /\ sdkCalls[i].request = r }
DeployReply == response.op \in {"deploy_compute", "deploy_yaml"}

\* C25: a createDeployment call is issued for a request only after its
\* getUserBalance call, when the check has completed and found the unlocked
\* balance at or above 3 tokens; a request whose balance was insufficient
\* fails with that message and has no createDeployment call; and a
\* successful reply carries the balance of that check.
C25_DeployAfterBalanceCheck ==
  /\ \A r \in DOMAIN inFlight :
       /\ \A i \in DeployCalls(r) :
            /\ \E j \in 1..(i - 1) :
                 sdkCalls[j] = SdkCall("getUserBalance", r, TokenOfArgs(inFlight[r].args))
            /\ Checked(r) /\ inFlight[r].balanceCheck.sufficient
            /\ inFlight[r].balanceCheck.balance.unlockedBalance
                 >= MINIMUM_CST_BALANCE * 10 ^ GetTokenDecimals(TokenOfArgs(inFlight[r].args))
       /\ (Checked(r) /\ ~inFlight[r].balanceCheck.sufficient) =>
            /\ inFlight[r].pc = "done" /\ DeployCalls(r) = {}
            /\ (DeployReply /\ response.request = r) =>
                 /\ ~response.success
                 /\ response.error = inFlight[r].balanceCheck.message
                 /\ response.error.kind = "insufficient"
       /\ Cardinality(DeployCalls(r)) <= 1
  /\ (DeployReply /\ response.success) =>
       /\ DeployCalls(response.request) # {}
       /\ response.balanceInfo.currentBalance
            = FormatTokenAmount(
                inFlight[response.request].balanceCheck.balance.unlockedBalance,
                GetTokenDecimals(response.balanceInfo.token))
       /\ response.balanceInfo.minimumRequired = 3
\* A deployment went through on a balance of exactly 3 tokens, and its reply
\* carries that balance with the low-balance warning.
C25_Witness ==
  /\ DeployReply /\ response.success
  /\ response.balanceInfo.currentBalance = <<3, 0>>
  /\ response.balanceInfo.warning.kind = "warning"
  /\ Len(sdkCalls) = 2 /\ sdkCalls[2].api = "createDeployment"

\* --------------------------------------- interleaved answer submissions
\* Both submissions were for the started conversation and both have replied.
BothFinished ==
  /\ DOMAIN inFlight = Submissions
  /\ \A r \in Submissions :
       inFlight[r].pc = "done" /\ inFlight[r].args.conversation_id = STARTED_ID
\* The history holds the answer of a and then the answer of b, and
\* currentParams is the started parameters with a's and then b's merged in.
AppliedInOrder(a, b) ==
  /\ Len(conversationStore[STARTED_ID].history) = 2
  /\ conversationStore[STARTED_ID].history[1].answer = inFlight[a].args.answer
  /\ conversationStore[STARTED_ID].history[2].answer = inFlight[b].args.answer
  /\ conversationStore[STARTED_ID].currentParams
       = MergeParams(MergeParams(StartProcessed.params, inFlight[a].processed.params),
                     inFlight[b].processed.params)
  /\ DOMAIN inFlight[a].processed.params \cup DOMAIN inFlight[b].processed.params
       \subseteq DOMAIN conversationStore[STARTED_ID].currentParams
\* The stored missing labels and the complete flag are those of gaps.
StoredGapsAre(gaps) ==
  /\ conversationStore[STARTED_ID].missingParams = gaps
  /\ conversationStore[STARTED_ID].complete = (gaps = <<>>)

\* C30: when two answer submissions for one conversation interleave at the
\* enhancer's awaits, after both have replied the history holds both answers
\* as two entries, currentParams holds the fields of both merged in the order
\* of their updates, and the stored missing labels and complete flag are
\* those of the submission whose update was applied last.
C30_NoLostUpdate ==
  BothFinished =>
    \E a \in Submissions, b \in Submissions :
      a # b /\ AppliedInOrder(a, b) /\ StoredGapsAre(inFlight[b].processed.missingParams)
\* C30 as stated: the stored missing labels and complete flag are those of the
\* submission that replied last.
C30_GapsOfLastReply ==
  BothFinished =>
    /\ \E a \in Submissions, b \in Submissions : a # b /\ AppliedInOrder(a, b)
    /\ StoredGapsAre(response.processed.missingParams)
\* The submission that still lacks the duration updated first and replied
\* last; the one that completed the dialogue updated second.
C30_Witness ==
  /\ BothFinished
  /\ ~response.complete /\ response.request.answer = STORAGE
  /\ conversationStore[STARTED_ID].history[1].answer = STORAGE
  /\ conversationStore[STARTED_ID].history[2].answer = STORAGE \o HOURS
  /\ conversationStore[STARTED_ID].complete
  /\ conversationStore[STARTED_ID].missingParams = <<>>

====
